---- MODULE Spec2Model ----
(***************************************************************************)
(* A model of MyWebServer: the growable Buffer (src/src/buffer.cpp), the   *)
(* per-client HttpConn (src/src/httpconn.cpp) and the epoll reactor with   *)
(* its worker tasks (src/src/webserver.cpp, src/include/threadpool.h).     *)
(*                                                                         *)
(* A byte is modelled as a string token; a std::vector<char> as a sequence *)
(* of tokens; a size_t cursor as a natural number (offsets are 0-based as  *)
(* in the code, sequence indices are offset + 1).                          *)
(***************************************************************************)
EXTENDS Integers, Sequences, FiniteSets, TLC

VARIABLES
    buf,        \* Buffer spec: the Buffer object under test
    shadow,     \* Buffer spec: bytes appended and not yet retrieved (ghost)
    lastOp,     \* Buffer spec: the last call made, with the state before it (ghost)
    hc,         \* Connection spec: the HttpConn object users_[fd]
    fdOpen,     \* Connection spec: the descriptor is open in the kernel
    ep,         \* Connection spec: the descriptor's epoll entry:
                \*   "absent", "off" (oneshot fired), "IN" or "OUT" (armed)
    cpc,        \* Connection spec: "idle", or "Write" while HttpConn::Write runs
    wcall,      \* Connection spec: the locals of the running Write call
    mappings,   \* Connection spec: every mmap made: [gen, unmaps] (kernel + ghost)
    gen,        \* Connection spec: how many connections were accepted (ghost)
    userCount_, \* Connection spec: HttpConn::userCount_
    lastRun,    \* Connection spec: the handler that ran last and what it saw (ghost)
    wg,         \* Connection spec: iov_ as it was when Write was entered (ghost)
    fails,      \* Connection spec: parse failures on this connection so far (ghost)
    users,      \* Server spec: WebServer::users_, descriptor -> HttpConn
    kfd,        \* Server spec: kernel: the descriptor is open
    kep,        \* Server spec: kernel: the descriptor's epoll entry (as ep)
    sock,       \* Server spec: kernel: the socket's unread input and its peer's state
    backlog,    \* Server spec: kernel: connections waiting in the listen queue
    sends,      \* Server spec: requests sent by clients so far (ghost)
    tasks,      \* Server spec: ThreadPool::Pool::tasks
    rpc,        \* Server spec: where the reactor thread is in WebServer::Start
    rfd,        \* Server spec: the descriptor the reactor is handling
    wk,         \* Server spec: each worker thread: where it is, and its task
    sq,         \* Database pool spec: the SqlConnPool object
    dbt,        \* Database pool spec: each calling thread: where it is, its handle
    tp,         \* Thread pool spec: ThreadPool::Pool (tasks, isClosed)
    pw,         \* Thread pool spec: each worker thread: where it is, its task
    ps,         \* Thread pool spec: each submitting thread: where it is in AddTask
    pd,         \* Thread pool spec: where the thread running ~ThreadPool is
    ph,         \* Thread pool spec: what was submitted, popped and run (ghost)
    rdc,        \* Read spec: the HttpConn whose Read is called
    rdw,        \* Read spec: the locals of the Read call (bytes_read, *saveErrno)
    rde         \* Read spec: where the caller is, and what the descriptor will return

bufVars == <<buf, shadow, lastOp>>
connVars == <<hc, fdOpen, ep, cpc, wcall, lastRun, wg, fails>>
sharedVars == <<mappings, gen, userCount_>>
srvVars == <<users, kfd, kep, sock, backlog, sends, tasks, rpc, rfd, wk>>
sqlVars == <<sq, dbt>>
poolVars == <<tp, pw, ps, pd, ph>>
readVars == <<rdc, rdw, rde>>

(***************************************************************************)
(* Bounds of the model.                                                    *)
(***************************************************************************)
InitBufSize   == 1   \* capacity a Buffer is constructed with (1024 in the code)
MaxAppendLen  == 2   \* longest string one Append call copies in
MaxReadable   == 2   \* Append is not called with more than this many unread bytes
MaxEnsure     == 2   \* largest n of an EnsureWriteable(n) / Retrieve(n) call
MaxAccepts    == 2   \* Connection spec: connections accepted in one run
MaxMaps       == 2   \* Connection spec: requests are sent while fewer mappings were made
NumFds        == 1   \* Server spec: descriptor numbers the kernel hands out
NumWorkers    == 2   \* Server spec: worker threads of the pool (8 in the code)
MaxSends      == 2   \* Server spec: requests sent by clients in one run
MaxFails      == 2   \* Connection spec: parse failures are counted up to this many
MaxConn       == 2   \* Database pool spec: connSize given to SqlConnPool::Init
ExtraCallers  == 1   \* Database pool spec: calling threads beyond the pool size
PoolThreads   == 2   \* Thread pool spec: threadCount of the ThreadPool (8 by default)
NumSubmitters == 2   \* Thread pool spec: threads that call AddTask
MaxTasks      == 3   \* Thread pool spec: tasks submitted in one run
MaxReadResults == 2  \* Read spec: readv results of one call before the descriptor settles

NUL == "NUL"                 \* a value-initialised char of the vector
DataBytes == {"a", "b"}      \* the byte values the Buffer spec appends

Min(a, b) == IF a < b THEN a ELSE b

\* the errno values the socket calls report
EAGAIN == "EAGAIN"     \* EWOULDBLOCK is the same value on Linux
EINTR  == "EINTR"
EPIPE  == "EPIPE"      \* stands for every other error of writev
ECONNRESET == "ECONNRESET"   \* stands for every other error of readv
NoErrno == "0"

(***************************************************************************)
(* Buffer (src/src/buffer.cpp).  A Buffer is a record                      *)
(*   [buffer_ : the vector, readPos_, writePos_ : the two cursors].        *)
(***************************************************************************)
\* Buffer::Buffer(initBufSize): a vector of initBufSize zero chars, cursors 0
NewBuffer(initBufSize) ==
    [buffer_ |-> [i \in 1..initBufSize |-> NUL], readPos_ |-> 0, writePos_ |-> 0]

ReadAbleBytes(b)  == b.writePos_ - b.readPos_
WriteAbleBytes(b) == Len(b.buffer_) - b.writePos_
PrePendBytes(b)   == b.readPos_

\* the bytes at [Peek(), Peek() + ReadAbleBytes())
PeekBytes(b) == SubSeq(b.buffer_, b.readPos_ + 1, b.writePos_)

\* vector::resize(n): keep the first n chars, value-initialise the new ones
VectorResize(v, n) == [i \in 1..n |-> IF i <= Len(v) THEN v[i] ELSE NUL]

\* std::copy(first, last, dest) inside one vector, dest <= first (a forward copy)
VectorCopy(v, first, last, dest) ==
    [i \in 1..Len(v) |->
        IF i > dest /\ i <= dest + (last - first) THEN v[first + (i - dest)] ELSE v[i]]

\* a variant that always grows, never compacts
MakeSpace_AlwaysGrow(b, len) ==
    [b EXCEPT !.buffer_ = VectorResize(b.buffer_, b.writePos_ + len)]

\* a variant whose compaction forgets to move the bytes
MakeSpace_NoCopy(b, len) ==
    IF WriteAbleBytes(b) + PrePendBytes(b) < len
    THEN [b EXCEPT !.buffer_ = VectorResize(b.buffer_, b.writePos_ + len)]
    ELSE LET readable == ReadAbleBytes(b) IN
         [b EXCEPT !.readPos_ = 0, !.writePos_ = readable]

\* a variant whose compaction resets only the read cursor
MakeSpace_KeepWritePos(b, len) ==
    IF WriteAbleBytes(b) + PrePendBytes(b) < len
    THEN [b EXCEPT !.buffer_ = VectorResize(b.buffer_, b.writePos_ + len)]
    ELSE [b EXCEPT !.buffer_ = VectorCopy(b.buffer_, b.readPos_, b.writePos_, 0),
                   !.readPos_ = 0]

MakeSpace_(b, len) ==
    IF WriteAbleBytes(b) + PrePendBytes(b) < len
    THEN [b EXCEPT !.buffer_ = VectorResize(b.buffer_, b.writePos_ + len)]
    ELSE LET readable == ReadAbleBytes(b) IN
         [b EXCEPT !.buffer_ = VectorCopy(b.buffer_, b.readPos_, b.writePos_, 0),
                   !.readPos_ = 0, !.writePos_ = readable]

RetrieveAll(b) == [b EXCEPT !.readPos_ = 0, !.writePos_ = 0]

\* a variant without the clamp
Retrieve_NoClamp(b, len) == [b EXCEPT !.readPos_ = @ + len]

Retrieve(b, len) ==
    IF len < ReadAbleBytes(b) THEN [b EXCEPT !.readPos_ = @ + len] ELSE RetrieveAll(b)

EnsureWriteable(b, len) ==
    IF WriteAbleBytes(b) < len THEN MakeSpace_(b, len) ELSE b

HasWritten(b, len) == [b EXCEPT !.writePos_ = @ + len]

\* Buffer::Append(const char* str, size_t len) (Append is taken by Sequences): EnsureWriteable, copy to BeginWrite(), HasWritten
AppendBytes(b, str) ==
    LET b1 == EnsureWriteable(b, Len(str))
        b2 == [b1 EXCEPT !.buffer_ =
                 [i \in 1..Len(b1.buffer_) |->
                    IF i > b1.writePos_ /\ i <= b1.writePos_ + Len(str)
                    THEN str[i - b1.writePos_] ELSE b1.buffer_[i]]]
    IN HasWritten(b2, Len(str))

\* a variant that appends the overflow without first marking the vector full
ReadFd_NoFill(b, r) ==
    IF r.errno # NoErrno THEN b
    ELSE LET writeable == WriteAbleBytes(b)
             len == Len(r.data)
         IN IF len <= writeable
            THEN [b EXCEPT !.buffer_ =
                     [i \in 1..Len(b.buffer_) |->
                        IF i > b.writePos_ /\ i <= b.writePos_ + len
                        THEN r.data[i - b.writePos_] ELSE b.buffer_[i]],
                   !.writePos_ = @ + len]
            ELSE LET filled == [b EXCEPT !.buffer_ =
                                  [i \in 1..Len(b.buffer_) |->
                                     IF i > b.writePos_ THEN r.data[i - b.writePos_]
                                     ELSE b.buffer_[i]]]
                 IN AppendBytes(filled, SubSeq(r.data, writeable + 1, len))

\* Buffer::ReadFd with readv returning r = [data, errno]: data is the byte
\* sequence read (len = Len(data)), errno # "0" means readv returned -1
ReadFd(b, r) ==
    IF r.errno # NoErrno THEN b
    ELSE LET writeable == WriteAbleBytes(b)
             len == Len(r.data)
         IN IF len <= writeable
            THEN [b EXCEPT !.buffer_ =
                     [i \in 1..Len(b.buffer_) |->
                        IF i > b.writePos_ /\ i <= b.writePos_ + len
                        THEN r.data[i - b.writePos_] ELSE b.buffer_[i]],
                   !.writePos_ = @ + len]
            ELSE LET filled == [b EXCEPT !.buffer_ =
                                  [i \in 1..Len(b.buffer_) |->
                                     IF i > b.writePos_ THEN r.data[i - b.writePos_]
                                     ELSE b.buffer_[i]],
                                !.writePos_ = Len(b.buffer_)]
                 IN AppendBytes(filled, SubSeq(r.data, writeable + 1, len))

(***************************************************************************)
(* Buffer spec: any sequence of Append / Retrieve / RetrieveAll /          *)
(* EnsureWriteable calls on one Buffer.                                    *)
(***************************************************************************)
AppendStrings ==
    UNION {[1..n -> DataBytes] : n \in 0..MaxAppendLen}

\* what a call leaves in lastOp: the call, its argument and the Buffer before it
\* (capacity, cursors, readable bytes)
Called(op, n, b) ==
    [op |-> op, n |-> n, size |-> Len(b.buffer_), readPos_ |-> b.readPos_,
     writePos_ |-> b.writePos_, readable |-> PeekBytes(b)]

NoOp == Called("none", 0, NewBuffer(InitBufSize))

BufAppend ==
    \E str \in AppendStrings :
        /\ ReadAbleBytes(buf) + Len(str) <= MaxReadable
        /\ buf' = AppendBytes(buf, str)
        /\ shadow' = shadow \o str
        /\ lastOp' = Called("Append", Len(str), buf)

BufRetrieve ==
    \E n \in 0..MaxEnsure :
        /\ buf' = Retrieve(buf, n)
        /\ shadow' = SubSeq(shadow, Min(n, Len(shadow)) + 1, Len(shadow))
        /\ lastOp' = Called("Retrieve", n, buf)

BufRetrieveAll ==
    /\ buf' = RetrieveAll(buf)
    /\ shadow' = <<>>
    /\ lastOp' = Called("RetrieveAll", 0, buf)

BufEnsureWriteable ==
    \E n \in 0..MaxEnsure :
        /\ buf' = EnsureWriteable(buf, n)
        /\ shadow' = shadow
        /\ lastOp' = Called("EnsureWriteable", n, buf)

\* ReadFd with readv returning bytes (none: end of stream) or failing
BufReadFd ==
    \E r \in {[data |-> str, errno |-> NoErrno] : str \in AppendStrings}
             \cup {[data |-> <<>>, errno |-> e] : e \in {EAGAIN, ECONNRESET}} :
        /\ ReadAbleBytes(buf) + Len(r.data) <= MaxReadable
        /\ buf' = ReadFd(buf, r)
        /\ shadow' = shadow \o r.data
        /\ lastOp' = Called("ReadFd", IF r.errno # NoErrno THEN -1 ELSE Len(r.data), buf)

BufNext ==
    \/ BufAppend /\ UNCHANGED <<connVars, sharedVars, srvVars, sqlVars, poolVars, readVars>>
    \/ BufRetrieve /\ UNCHANGED <<connVars, sharedVars, srvVars, sqlVars, poolVars, readVars>>
    \/ BufRetrieveAll /\ UNCHANGED <<connVars, sharedVars, srvVars, sqlVars, poolVars, readVars>>
    \/ BufEnsureWriteable /\ UNCHANGED <<connVars, sharedVars, srvVars, sqlVars, poolVars, readVars>>
    \/ BufReadFd /\ UNCHANGED <<connVars, sharedVars, srvVars, sqlVars, poolVars, readVars>>


(***************************************************************************)
(* The environment of an HttpConn: the files under srcDir_ and the errno   *)
(* values the socket calls report.                                         *)
(***************************************************************************)
IndexSize == 2    \* st_size of srcDir_/index.html


CRLF == "CRLF"         \* the two bytes \r\n, one token

\* stat(srcDir_ + path): the file's kind and size, and whether open(O_RDONLY) succeeds
StatOf(path) ==
    CASE path = "/index.html"  -> [kind |-> "file", size |-> IndexSize, openable |-> TRUE]
      [] path = "/secret.html" -> [kind |-> "file", size |-> 1, openable |-> FALSE]
      [] path = "/dir"         -> [kind |-> "dir",  size |-> 0, openable |-> TRUE]
      [] OTHER                 -> [kind |-> "none", size |-> 0, openable |-> FALSE]

\* byte i (0-based) of a file, as mmap shows it
FileByte(path, i) == <<path, i>>

\* std::to_string of a file size
SizeToString(n) ==
    CASE n = 0 -> "0" [] n = 1 -> "1" [] n = 2 -> "2" [] n = 3 -> "3" [] OTHER -> "N"

(***************************************************************************)
(* HttpConn (src/src/httpconn.cpp).  A pointer into the write buffer or    *)
(* into a mapping is [seg, id, off]: seg "null" (memset 0), "buf" (the     *)
(* vector of writeBuff_) or "map" (mapping number id), off the byte offset.*)
(***************************************************************************)
NullPtr == [seg |-> "null", id |-> 0, off |-> 0]
NullIov == [iov_base |-> NullPtr, iov_len |-> 0]

isET == TRUE     \* WebServer::InitEventMode_ sets HttpConn::isET = true

\* HttpConn::HttpConn().  isKeepAlive_, fileStat_ and the strings are not set by
\* the constructor; nothing reads them before Init, they are shown as FALSE / 0 / "".
NewHttpConn ==
    [fd_ |-> -1, isClose_ |-> TRUE, file_ |-> 0, iovCnt_ |-> 0,
     iov_ |-> <<NullIov, NullIov>>,
     readBuff_ |-> NewBuffer(InitBufSize), writeBuff_ |-> NewBuffer(InitBufSize),
     isKeepAlive_ |-> FALSE, method_ |-> "", path_ |-> "", version_ |-> "",
     fileStat_ |-> 0]

\* HttpConn::Init up to and including isClose_ = false (userCount_++ is the caller's)
Init_First(c, fd) ==
    [c EXCEPT !.fd_ = fd,
              !.writeBuff_ = RetrieveAll(c.writeBuff_),
              !.readBuff_ = RetrieveAll(c.readBuff_),
              !.isClose_ = FALSE]

\* the rest of HttpConn::Init
Init_Rest(c) ==
    [c EXCEPT !.isKeepAlive_ = FALSE, !.file_ = 0, !.fileStat_ = 0]

HttpConnInit(c, fd) == Init_Rest(Init_First(c, fd))

ToWriteBytes(c) == c.iov_[1].iov_len + c.iov_[2].iov_len
IsKeepAlive(c) == c.isKeepAlive_

\* std::regex_match(line, "^([^ ]*) ([^ ]*) HTTP/([^ ]*)$") on the request lines of
\* the model: the sub-matches, or matched = FALSE
RequestLineMatch(line) ==
    CASE line = <<"GET / HTTP/1.1">> ->
            [matched |-> TRUE, method |-> "GET", path |-> "/", version |-> "1.1"]
      [] line = <<"GET /index.html HTTP/1.1">> ->
            [matched |-> TRUE, method |-> "GET", path |-> "/index.html", version |-> "1.1"]
      [] line = <<"GET /nope.html HTTP/1.1">> ->
            [matched |-> TRUE, method |-> "GET", path |-> "/nope.html", version |-> "1.1"]
      [] line = <<"GET /secret.html HTTP/1.1">> ->
            [matched |-> TRUE, method |-> "GET", path |-> "/secret.html", version |-> "1.1"]
      [] line = <<"POST /login HTTP/1.1">> ->
            [matched |-> TRUE, method |-> "POST", path |-> "/login", version |-> "1.1"]
      [] OTHER ->
            [matched |-> FALSE, method |-> "", path |-> "", version |-> ""]

\* HttpConn::ParseRequestLine_: the connection after it, and its result
ParseRequestLine_(c, line) ==
    LET m == RequestLineMatch(line) IN
    IF m.matched
    THEN [c |-> [c EXCEPT !.method_ = m.method,
                          !.path_ = IF m.path = "/" THEN "/index.html" ELSE m.path,
                          !.version_ = m.version],
          ret |-> TRUE]
    ELSE [c |-> c, ret |-> FALSE]

\* std::regex_match(line, "^([^:]*): ?(.*)$") on the header lines of the model
HeaderMatch(line) ==
    CASE line = <<"Connection: keep-alive">> ->
            [matched |-> TRUE, name |-> "Connection", value |-> "keep-alive"]
      [] line = <<"Connection:keep-alive">> ->
            [matched |-> TRUE, name |-> "Connection", value |-> "keep-alive"]
      [] line = <<"Connection: close">> ->
            [matched |-> TRUE, name |-> "Connection", value |-> "close"]
      [] line = <<"Host: a">> ->
            [matched |-> TRUE, name |-> "Host", value |-> "a"]
      [] OTHER ->
            [matched |-> FALSE, name |-> "", value |-> ""]

\* HttpConn::ParseHeader_
ParseHeader_(c, line) ==
    LET m == HeaderMatch(line) IN
    IF m.matched /\ m.name = "Connection" /\ m.value = "keep-alive"
    THEN [c EXCEPT !.isKeepAlive_ = TRUE]
    ELSE c

\* std::string::find("\r\n", from): the 0-based position of the first CRLF at or
\* after position from, or -1 (npos)
RECURSIVE FindCRLF(_, _)
FindCRLF(data, from) ==
    IF from >= Len(data) THEN -1
    ELSE IF data[from + 1] = CRLF THEN from
    ELSE FindCRLF(data, from + 1)

\* the header loop of HttpConn::Process (lines 161-170): from headerStart, parse
\* header lines up to the first empty line; yields the connection and the
\* position where the body starts
RECURSIVE ParseHeaders(_, _, _)
ParseHeaders(c, data, headerStart) ==
    LET lineEnd == FindCRLF(data, headerStart) IN
    IF lineEnd = -1 THEN [c |-> c, headerStart |-> headerStart]
    ELSE LET headerLine == SubSeq(data, headerStart + 1, lineEnd) IN
         IF headerLine = <<>>
         THEN [c |-> c, headerStart |-> lineEnd + 1]
         ELSE ParseHeaders(ParseHeader_(c, headerLine), data, lineEnd + 1)

\* a variant that always announces Connection: close
Header200_AlwaysClose(keepAlive, size) ==
    <<"HTTP/1.1 200 OK", "Connection: close",
      "Content-Length: " \o SizeToString(size), CRLF>>

\* the header strings MakeResponse_ appends, one token per line
Header404 == <<"HTTP/1.1 404 Not Found", "Content-Length: 0", CRLF>>
Header403 == <<"HTTP/1.1 403 Forbidden", CRLF>>
Header200(keepAlive, size) ==
    <<"HTTP/1.1 200 OK",
      IF keepAlive THEN "Connection: keep-alive" ELSE "Connection: close",
      "Content-Length: " \o SizeToString(size), CRLF>>

\* iov_[0] pointed at the unsent bytes of writeBuff_ (Peek(), ReadAbleBytes())
IovAtWriteBuff(c) ==
    [iov_base |-> [seg |-> "buf", id |-> 0, off |-> c.writeBuff_.readPos_],
     iov_len |-> ReadAbleBytes(c.writeBuff_)]

\* HttpConn::MakeResponse_: the connection after it, and whether mmap was called
\* (newMap is the mapping mmap returns)
MakeResponse_(c, newMap) ==
    LET st == StatOf(c.path_)
        c1 == [c EXCEPT !.fileStat_ = st.size]
    IN
    IF st.kind # "file"
    THEN LET c2 == [c1 EXCEPT !.writeBuff_ = AppendBytes(c1.writeBuff_, Header404)]
         IN [c |-> [c2 EXCEPT !.iov_[1] = IovAtWriteBuff(c2), !.iovCnt_ = 1],
             mapped |-> FALSE]
    ELSE LET c2 == [c1 EXCEPT !.writeBuff_ =
                       AppendBytes(c1.writeBuff_, Header200(c1.isKeepAlive_, st.size))]
         IN
         IF ~st.openable
         THEN LET c3 == [c2 EXCEPT !.writeBuff_ =
                            AppendBytes(RetrieveAll(c2.writeBuff_), Header403)]
              IN [c |-> [c3 EXCEPT !.iov_[1] = IovAtWriteBuff(c3), !.iovCnt_ = 1],
                  mapped |-> FALSE]
         ELSE [c |-> [c2 EXCEPT !.file_ = newMap,
                                !.iov_[1] = IovAtWriteBuff(c2),
                                !.iov_[2] = [iov_base |-> [seg |-> "map", id |-> newMap, off |-> 0],
                                             iov_len |-> st.size],
                                !.iovCnt_ = 2],
               mapped |-> TRUE]

\* a variant that answers a request line it cannot parse with the 404 response
Process_AnswerBadLine(c, newMap) ==
    IF ReadAbleBytes(c.readBuff_) <= 0
    THEN [c |-> c, ret |-> FALSE, mapped |-> FALSE]
    ELSE
    LET requestData == PeekBytes(c.readBuff_)
        c0 == [c EXCEPT !.readBuff_ = RetrieveAll(c.readBuff_)]
        lineEnd == FindCRLF(requestData, 0)
    IN
    IF lineEnd = -1
    THEN [c |-> c0, ret |-> FALSE, mapped |-> FALSE]
    ELSE
    LET rl == ParseRequestLine_(c0, SubSeq(requestData, 1, lineEnd)) IN
    IF ~rl.ret
    THEN [c |-> MakeResponse_([c0 EXCEPT !.path_ = "/nope.html"], newMap).c,
          ret |-> FALSE, mapped |-> FALSE]
    ELSE
    LET hd == ParseHeaders(rl.c, requestData, lineEnd + 1)
        mr == MakeResponse_(hd.c, newMap)
    IN [c |-> mr.c, ret |-> TRUE, mapped |-> mr.mapped]

\* a variant that leaves an incomplete request line in the input buffer
Process_KeepIncomplete(c, newMap) ==
    IF ReadAbleBytes(c.readBuff_) <= 0
    THEN [c |-> c, ret |-> FALSE, mapped |-> FALSE]
    ELSE
    LET requestData == PeekBytes(c.readBuff_)                          \* RetrieveAllToStr
        c0 == [c EXCEPT !.readBuff_ = RetrieveAll(c.readBuff_)]
        lineEnd == FindCRLF(requestData, 0)
    IN
    IF lineEnd = -1
    THEN [c |-> c, ret |-> FALSE, mapped |-> FALSE]
    ELSE
    LET rl == ParseRequestLine_(c0, SubSeq(requestData, 1, lineEnd)) IN
    IF ~rl.ret
    THEN [c |-> c0, ret |-> FALSE, mapped |-> FALSE]
    ELSE
    LET hd == ParseHeaders(rl.c, requestData, lineEnd + 1)
        \* ParseBody_ changes nothing of the connection
        mr == MakeResponse_(hd.c, newMap)
    IN [c |-> mr.c, ret |-> TRUE, mapped |-> mr.mapped]

\* HttpConn::Process: the connection after it, its result, and whether mmap was called
Process(c, newMap) ==
    IF ReadAbleBytes(c.readBuff_) <= 0
    THEN [c |-> c, ret |-> FALSE, mapped |-> FALSE]
    ELSE
    LET requestData == PeekBytes(c.readBuff_)                          \* RetrieveAllToStr
        c0 == [c EXCEPT !.readBuff_ = RetrieveAll(c.readBuff_)]
        lineEnd == FindCRLF(requestData, 0)
    IN
    IF lineEnd = -1
    THEN [c |-> c0, ret |-> FALSE, mapped |-> FALSE]
    ELSE
    LET rl == ParseRequestLine_(c0, SubSeq(requestData, 1, lineEnd)) IN
    IF ~rl.ret
    THEN [c |-> c0, ret |-> FALSE, mapped |-> FALSE]
    ELSE
    LET hd == ParseHeaders(rl.c, requestData, lineEnd + 1)
        \* ParseBody_ changes nothing of the connection
        mr == MakeResponse_(hd.c, newMap)
    IN [c |-> mr.c, ret |-> TRUE, mapped |-> mr.mapped]

\* what writev(fd_, iov_, iovCnt_) can return: a byte count within the first
\* iovCnt_ segments (0 when they are empty), or -1 with an errno
\* the byte a pointer of iov_ points at: in the vector of writeBuff_, or in the
\* mapping of index.html (the only file MakeResponse_ can map here)
Deref(c, p) ==
    IF p.seg = "buf" THEN c.writeBuff_.buffer_[p.off + 1]
    ELSE FileByte("/index.html", p.off)

\* the bytes writev would gather from segment k of iov_
SegBytes(c, k) ==
    IF k > c.iovCnt_ THEN <<>>
    ELSE [i \in 1..c.iov_[k].iov_len |-> Deref(c, [c.iov_[k].iov_base EXCEPT !.off = @ + i - 1])]

\* the bytes writev(fd_, iov_, iovCnt_) would send if the socket took them all
Queued(c) == SegBytes(c, 1) \o SegBytes(c, 2)

WritevAvail(c) ==
    (IF c.iovCnt_ >= 1 THEN c.iov_[1].iov_len ELSE 0)
  + (IF c.iovCnt_ >= 2 THEN c.iov_[2].iov_len ELSE 0)

\* (nothing to send: 0, or the socket's pending error; would-block and
\* interruption need bytes to send)
WritevResults(c) ==
    IF WritevAvail(c) = 0
    THEN {[len |-> 0, errno |-> NoErrno], [len |-> -1, errno |-> EPIPE]}
    ELSE {[len |-> n, errno |-> NoErrno] : n \in 1..WritevAvail(c)}
         \cup {[len |-> -1, errno |-> e] : e \in {EAGAIN, EINTR, EPIPE}}

PtrAdd(p, n) == [p EXCEPT !.off = @ + n]

\* a variant that takes the whole count from segment 1 when the write crosses
AdjustIov_WholeFromSeg1(c, len) ==
    IF len > c.iov_[1].iov_len
    THEN [c EXCEPT !.iov_[2].iov_base = PtrAdd(@, len),
                   !.iov_[2].iov_len = @ - Min(len, @),
                   !.iov_[1].iov_len = 0,
                   !.writeBuff_ = IF c.iov_[1].iov_len # 0
                                  THEN RetrieveAll(c.writeBuff_) ELSE c.writeBuff_]
    ELSE [c EXCEPT !.iov_[1].iov_base = PtrAdd(@, len),
                   !.iov_[1].iov_len = @ - len,
                   !.writeBuff_ = Retrieve(c.writeBuff_, len)]

\* a variant that empties the output buffer on the first write into segment 0
AdjustIov_EarlyConsume(c, len) ==
    IF len > c.iov_[1].iov_len
    THEN [c EXCEPT !.iov_[2].iov_base = PtrAdd(@, len - c.iov_[1].iov_len),
                   !.iov_[2].iov_len = @ - (len - c.iov_[1].iov_len),
                   !.iov_[1].iov_len = 0,
                   !.writeBuff_ = IF c.iov_[1].iov_len # 0
                                  THEN RetrieveAll(c.writeBuff_) ELSE c.writeBuff_]
    ELSE [c EXCEPT !.iov_[1].iov_base = PtrAdd(@, len),
                   !.iov_[1].iov_len = @ - len,
                   !.writeBuff_ = RetrieveAll(c.writeBuff_)]

\* HttpConn::Write lines 116-131: account for len bytes accepted by writev
AdjustIov(c, len) ==
    IF len > c.iov_[1].iov_len
    THEN [c EXCEPT !.iov_[2].iov_base = PtrAdd(@, len - c.iov_[1].iov_len),
                   !.iov_[2].iov_len = @ - (len - c.iov_[1].iov_len),
                   !.iov_[1].iov_len = 0,
                   !.writeBuff_ = IF c.iov_[1].iov_len # 0
                                  THEN RetrieveAll(c.writeBuff_) ELSE c.writeBuff_]
    ELSE [c EXCEPT !.iov_[1].iov_base = PtrAdd(@, len),
                   !.iov_[1].iov_len = @ - len,
                   !.writeBuff_ = Retrieve(c.writeBuff_, len)]

\* the locals of a running HttpConn::Write (or Read) call
CallStart == [bytes |-> 0, saveErrno |-> NoErrno, done |-> FALSE, ret |-> 0]

\* one pass of the loop of HttpConn::Write with writev returning r: the
\* connection and the locals after it (done: the call returns ret)
WriteIter(c, w, r) ==
    IF r.len < 0
    THEN LET w1 == [w EXCEPT !.saveErrno = r.errno] IN
         IF r.errno = EAGAIN THEN [c |-> c, w |-> [w1 EXCEPT !.done = TRUE, !.ret = w.bytes]]
         ELSE IF r.errno = EINTR THEN [c |-> c, w |-> w1]
         ELSE IF w.bytes = 0 THEN [c |-> c, w |-> [w1 EXCEPT !.done = TRUE, !.ret = -1]]
         ELSE [c |-> c, w |-> [w1 EXCEPT !.done = TRUE, !.ret = w.bytes]]
    ELSE IF r.len = 0
    THEN [c |-> c, w |-> [w EXCEPT !.done = TRUE, !.ret = w.bytes]]
    ELSE LET w1 == [w EXCEPT !.bytes = @ + r.len] IN
         IF ToWriteBytes(c) = 0
         THEN [c |-> c, w |-> [w1 EXCEPT !.done = TRUE, !.ret = w1.bytes]]
         ELSE LET c1 == AdjustIov(c, r.len) IN
              IF ~isET /\ ToWriteBytes(c1) < 10240
              THEN [c |-> c1, w |-> [w1 EXCEPT !.done = TRUE, !.ret = w1.bytes]]
              ELSE [c |-> c1, w |-> w1]

\* one pass of the loop of HttpConn::Read with ReadFd's readv returning r
ReadIter(c, w, r) ==
    LET c1 == [c EXCEPT !.readBuff_ = ReadFd(c.readBuff_, r)]
        len == IF r.errno # NoErrno THEN -1 ELSE Len(r.data)
        w1 == IF len < 0 THEN [w EXCEPT !.saveErrno = r.errno] ELSE w
    IN
    IF len <= 0
    THEN IF w1.saveErrno = EAGAIN THEN [c |-> c1, w |-> [w1 EXCEPT !.done = TRUE, !.ret = w.bytes]]
         ELSE IF w1.saveErrno = EINTR THEN [c |-> c1, w |-> w1]
         ELSE IF w.bytes = 0 THEN [c |-> c1, w |-> [w1 EXCEPT !.done = TRUE, !.ret = -1]]
         ELSE [c |-> c1, w |-> [w1 EXCEPT !.done = TRUE, !.ret = w.bytes]]
    ELSE LET w2 == [w1 EXCEPT !.bytes = @ + len] IN
         IF ~isET THEN [c |-> c1, w |-> [w2 EXCEPT !.done = TRUE, !.ret = w2.bytes]]
         ELSE [c |-> c1, w |-> w2]

\* HttpConn::Read run over the readv results rs, one per pass, until it returns
RECURSIVE ReadRun(_, _, _)
ReadRun(c, w, rs) ==
    IF w.done \/ rs = <<>> THEN [c |-> c, w |-> w]
    ELSE LET n == ReadIter(c, w, Head(rs)) IN ReadRun(n.c, n.w, Tail(rs))

\* a variant that also closes when Read found nothing to read
OnReadCloses_OnZero(ret, readErrno) == ret <= 0

\* WebServer::OnRead_ line 154: what the task does after Read returned
OnReadCloses(ret, readErrno) == ret <= 0 /\ readErrno # EAGAIN

\* WebServer::OnWrite_ lines 164-176: what the task does after Write returned:
\* "process" (OnProcess_), "rearm" (ModFd for EPOLLOUT) or "close" (CloseConn_)
OnWriteBranch(c, ret, writeErrno) ==
    IF ToWriteBytes(c) = 0
    THEN IF IsKeepAlive(c) THEN "process" ELSE "close"
    ELSE IF ret < 0 /\ writeErrno = EAGAIN THEN "rearm" ELSE "close"

(***************************************************************************)
(* Connection spec: one descriptor and the handlers the server runs for    *)
(* it, one at a time (accept, a read-task, a write-task pass by pass, a    *)
(* hangup close), for any input the peer and the socket can produce.       *)
(***************************************************************************)
RQ_KeepAlive == <<"GET / HTTP/1.1", CRLF, "Connection: keep-alive", CRLF, CRLF>>
RQ_Close     == <<"GET / HTTP/1.1", CRLF, CRLF>>
RQ_Nope      == <<"GET /nope.html HTTP/1.1", CRLF, CRLF>>
RQ_Secret    == <<"GET /secret.html HTTP/1.1", CRLF, CRLF>>
RQ_Garbage   == <<"GARBAGE", CRLF, CRLF>>
RQ_Partial   == <<"GET / HTTP/1.1">>

ConnChunks == {RQ_KeepAlive, RQ_Close, RQ_Nope, RQ_Secret, RQ_Garbage, RQ_Partial}

\* how a drained socket answers the next readv: would block, end of stream, error
ReadEnds ==
    {[data |-> <<>>, errno |-> e] : e \in {EAGAIN, NoErrno, ECONNRESET}}

\* the readv results of one Read call: the bytes that arrived, if any, then the end
ReadScripts(chunks) ==
    {<<e>> : e \in ReadEnds}
    \cup {<<[data |-> ch, errno |-> NoErrno], e>> : ch \in chunks, e \in ReadEnds}

\* what the last handler did: its kind, what Read / Write returned, the bytes left
\* to send, the branch taken, the request bytes Process was given and its result
NoHandler == [kind |-> "none", ret |-> 0, errno |-> NoErrno, remaining |-> 0,
              branch |-> "none", input |-> <<>>, pret |-> FALSE]
NoWrite == [len0 |-> 0, len1 |-> 0, off0 |-> 0, off1 |-> 0]

\* munmap(file_) as the kernel sees it
Munmap(maps, id) ==
    IF id = 0 THEN maps ELSE [maps EXCEPT ![id].unmaps = @ + 1]

\* a variant that leaves file_ pointing at the released mapping
Close_Unmap_KeepPointer(c) == c

\* HttpConn::Close lines 48-52
Close_Unmap(c) == [c EXCEPT !.file_ = 0]

\* HttpConn::Close line 57
Close_SetFlag(c) == [c EXCEPT !.isClose_ = TRUE]

\* HttpConn::Close run to its end by one thread
ConnClose(c) ==
    /\ mappings' = Munmap(mappings, c.file_)
    /\ hc' = Close_SetFlag(Close_Unmap(c))
    /\ fdOpen' = IF c.isClose_ THEN fdOpen ELSE FALSE
    /\ userCount_' = IF c.isClose_ THEN userCount_ ELSE userCount_ - 1

\* WebServer::CloseConn_ run to its end by one thread: DelFd, then HttpConn::Close
ConnCloseConn_(c) ==
    /\ ep' = "absent"
    /\ ConnClose(c)

\* a variant that closes the connection when Process returns false
ConnOnProcess_CloseOnFalse(c) ==
    LET pr == Process(c, Len(mappings) + 1) IN
    IF ~pr.ret THEN ConnCloseConn_(pr.c)
    ELSE /\ hc' = pr.c
         /\ mappings' = IF pr.mapped THEN mappings \o <<[gen |-> gen, unmaps |-> 0]>>
                        ELSE mappings
         /\ ep' = "OUT"
         /\ UNCHANGED <<fdOpen, userCount_>>

\* WebServer::OnProcess_: Process, then ModFd for EPOLLOUT or EPOLLIN
ConnOnProcess_(c) ==
    LET pr == Process(c, Len(mappings) + 1) IN
    /\ hc' = pr.c
    /\ mappings' = IF pr.mapped THEN mappings \o <<[gen |-> gen, unmaps |-> 0]>>
                   ELSE mappings
    /\ ep' = IF pr.ret THEN "OUT" ELSE "IN"
    /\ UNCHANGED <<fdOpen, userCount_>>

\* DealListen_ / AddClient_: accept returns the descriptor, Init, AddFd for EPOLLIN
ConnAccept ==
    /\ cpc = "idle"
    /\ ~fdOpen
    /\ gen < MaxAccepts
    /\ fdOpen' = TRUE
    /\ gen' = gen + 1
    /\ userCount_' = userCount_ + 1
    /\ hc' = HttpConnInit(hc, 1)
    /\ ep' = "IN"
    /\ lastRun' = [NoHandler EXCEPT !.kind = "accept"]
    /\ fails' = 0
    /\ UNCHANGED <<cpc, wcall, mappings, wg>>

\* an EPOLLIN event: DealRead_, and the task OnRead_ run to its end
ConnReadTask ==
    /\ ep = "IN"
    /\ cpc = "idle"
    /\ Len(mappings) < MaxMaps
    /\ \E script \in ReadScripts(ConnChunks) :
         LET rd == ReadRun(hc, CallStart, script) IN
         /\ rd.w.done
         /\ IF OnReadCloses(rd.w.ret, rd.w.saveErrno)
            THEN ConnCloseConn_(rd.c)
            ELSE ConnOnProcess_(rd.c)
         /\ lastRun' = [kind |-> "read", ret |-> rd.w.ret, errno |-> rd.w.saveErrno,
                     remaining |-> 0,
                     branch |-> IF OnReadCloses(rd.w.ret, rd.w.saveErrno)
                                THEN "close" ELSE "process",
                     input |-> PeekBytes(rd.c.readBuff_),
                     pret |-> /\ ~OnReadCloses(rd.w.ret, rd.w.saveErrno)
                              /\ Process(rd.c, Len(mappings) + 1).ret]
         /\ fails' = IF /\ ~OnReadCloses(rd.w.ret, rd.w.saveErrno)
                        /\ rd.w.ret > 0
                        /\ ~Process(rd.c, Len(mappings) + 1).ret
                     THEN Min(fails + 1, MaxFails) ELSE fails
    /\ UNCHANGED <<cpc, wcall, gen, wg>>

\* an EPOLLOUT event: DealWrite_, the task OnWrite_ enters HttpConn::Write
ConnWriteBegin ==
    /\ ep = "OUT"
    /\ cpc = "idle"
    /\ ep' = "off"
    /\ cpc' = "Write"
    /\ wcall' = CallStart
    /\ wg' = [len0 |-> hc.iov_[1].iov_len, len1 |-> hc.iov_[2].iov_len,
              off0 |-> hc.iov_[1].iov_base.off, off1 |-> hc.iov_[2].iov_base.off]
    /\ lastRun' = [NoHandler EXCEPT !.kind = "writev"]
    /\ UNCHANGED <<hc, fdOpen, mappings, gen, userCount_, fails>>

\* one pass of the loop of HttpConn::Write
ConnWritev ==
    /\ cpc = "Write"
    /\ ~wcall.done
    /\ \E r \in WritevResults(hc) :
         LET n == WriteIter(hc, wcall, r) IN
         /\ hc' = n.c
         /\ wcall' = n.w
         /\ lastRun' = [NoHandler EXCEPT !.kind = "writev", !.ret = r.len, !.errno = r.errno]
    /\ UNCHANGED <<fdOpen, ep, cpc, mappings, gen, userCount_, wg, fails>>

\* Write returned: the rest of OnWrite_
ConnWriteEnd ==
    /\ cpc = "Write"
    /\ wcall.done
    /\ cpc' = "idle"
    /\ LET branch == OnWriteBranch(hc, wcall.ret, wcall.saveErrno) IN
       /\ CASE branch = "process" -> ConnOnProcess_(hc)
            [] branch = "rearm"   -> /\ ep' = "OUT"
                                     /\ UNCHANGED <<hc, fdOpen, mappings, userCount_>>
            [] OTHER              -> ConnCloseConn_(hc)
       /\ lastRun' = [kind |-> "write", ret |-> wcall.ret, errno |-> wcall.saveErrno,
                   remaining |-> ToWriteBytes(hc), branch |-> branch,
                   input |-> PeekBytes(hc.readBuff_),
                   pret |-> /\ branch = "process"
                            /\ Process(hc, Len(mappings) + 1).ret]
    /\ UNCHANGED <<wcall, gen, wg, fails>>

\* an event with EPOLLRDHUP | EPOLLHUP | EPOLLERR: the reactor calls CloseConn_
ConnHangup ==
    /\ ep \in {"IN", "OUT"}
    /\ cpc = "idle"
    /\ ConnCloseConn_(hc)
    /\ lastRun' = [NoHandler EXCEPT !.kind = "hangup", !.branch = "close"]
    /\ UNCHANGED <<cpc, wcall, gen, wg, fails>>

\* the server goes away: users_ is destroyed, HttpConn::~HttpConn calls Close();
\* closing an open descriptor takes it out of the epoll set
ConnDestroy ==
    /\ cpc = "idle"
    /\ gen > 0
    /\ cpc' = "gone"
    /\ ConnClose(hc)
    /\ ep' = IF hc.isClose_ THEN ep ELSE "absent"
    /\ lastRun' = [NoHandler EXCEPT !.kind = "dtor",
                                    !.branch = IF hc.isClose_ THEN "closed" ELSE "close"]
    /\ UNCHANGED <<wcall, gen, wg, fails>>

ConnNext ==
    \/ ConnAccept /\ UNCHANGED <<bufVars, srvVars, sqlVars, poolVars, readVars>>
    \/ ConnReadTask /\ UNCHANGED <<bufVars, srvVars, sqlVars, poolVars, readVars>>
    \/ ConnWriteBegin /\ UNCHANGED <<bufVars, srvVars, sqlVars, poolVars, readVars>>
    \/ ConnWritev /\ UNCHANGED <<bufVars, srvVars, sqlVars, poolVars, readVars>>
    \/ ConnWriteEnd /\ UNCHANGED <<bufVars, srvVars, sqlVars, poolVars, readVars>>
    \/ ConnHangup /\ UNCHANGED <<bufVars, srvVars, sqlVars, poolVars, readVars>>
    \/ ConnDestroy /\ UNCHANGED <<bufVars, srvVars, sqlVars, poolVars, readVars>>

(***************************************************************************)
(* Server spec: the reactor thread (WebServer::Start), the worker threads  *)
(* of the pool and the clients, interleaved step by step.  A thread's step *)
(* is atomic; HttpConn::Init and HttpConn::Close are split where another   *)
(* thread can get in between (after close(fd_) the kernel may hand the     *)
(* descriptor number to the next accept).                                  *)
(*                                                                         *)
(* epoll_wait is taken to return one event at a time: with EPOLLONESHOT an *)
(* entry is switched off when its event is handed out, so nothing can act  *)
(* on a descriptor between the hand-out and the dispatch, and a batch is   *)
(* a sequence of such steps.                                               *)
(***************************************************************************)
Fds == 1..NumFds
Workers == 1..NumWorkers

SrvChunks == {RQ_KeepAlive, RQ_Close, RQ_Nope, RQ_Garbage}

\* a connected socket: unread input, the state of the peer, which accept made it
NewSock(id) == [inq |-> <<>>, peer |-> "up", id |-> id]
Idle == [pc |-> "idle", fd |-> 0, kind |-> "none", conn |-> 0,
         drained |-> FALSE, keepAlive |-> FALSE]

\* the HttpConn behind &users_[fd]
Client(fd) == users[fd]

\* HttpConn::Write run to its return, for every way writev can answer: the set of
\* [c, w] it can end in.  (A repeated EINTR changes nothing and is left out.)
RECURSIVE WriteOutcomes(_, _)
WriteOutcomes(c, w) ==
    IF w.done THEN {[c |-> c, w |-> w]}
    ELSE UNION {LET n == WriteIter(c, w, r) IN WriteOutcomes(n.c, n.w) :
                  r \in {x \in WritevResults(c) :
                           ~(x.errno = EINTR /\ w.saveErrno = EINTR)}}

\* what readv on the socket yields during one Read call: the unread input, then
\* would-block (peer up), end of stream (peer closed) or the reset error
ReadScriptOf(sk) ==
    CASE sk.peer = "rst" -> <<[data |-> <<>>, errno |-> ECONNRESET]>>
      [] sk.peer = "fin" ->
            IF sk.inq = <<>> THEN <<[data |-> <<>>, errno |-> NoErrno]>>
            ELSE <<[data |-> sk.inq, errno |-> NoErrno], [data |-> <<>>, errno |-> NoErrno]>>
      [] OTHER ->
            IF sk.inq = <<>> THEN <<[data |-> <<>>, errno |-> EAGAIN]>>
            ELSE <<[data |-> sk.inq, errno |-> NoErrno], [data |-> <<>>, errno |-> EAGAIN]>>

\* the lowest descriptor number not in use, as accept returns it (0: none left)
LowestFree == IF \E f \in Fds : ~kfd[f]
              THEN CHOOSE f \in Fds : ~kfd[f] /\ \A g \in Fds : ~kfd[g] => f <= g
              ELSE 0

\* an armed epoll entry whose event is due
Ready(fd) ==
    /\ kfd[fd]
    /\ \/ kep[fd] = "OUT"
       \/ kep[fd] = "IN" /\ (sock[fd].inq # <<>> \/ sock[fd].peer # "up")

\* a variant of the test of Start line 49 that never sees a hangup bit
HangupBits_Never(fd) == FALSE

\* the event carries EPOLLRDHUP | EPOLLHUP | EPOLLERR
HangupBits(fd) == sock[fd].peer # "up"

\* epoll_ctl(EPOLL_CTL_MOD) fails on a descriptor that is not registered
ModFd(fd, interest) ==
    kep' = IF kep[fd] = "absent" THEN kep ELSE [kep EXCEPT ![fd] = interest]

\* ThreadPool::AddTask
AddTask(kind, fd) == tasks' = tasks \o <<[kind |-> kind, fd |-> fd]>>

---------------------------------------------------------------------------
\* the clients
ClientConnect ==
    /\ gen + backlog < MaxAccepts
    /\ backlog' = backlog + 1
    /\ UNCHANGED <<users, kfd, kep, sock, sends, tasks, rpc, rfd, wk, sharedVars>>

ClientSend ==
    \E fd \in Fds, ch \in SrvChunks :
        /\ kfd[fd]
        /\ sock[fd].peer = "up"
        /\ sock[fd].inq = <<>>
        /\ sends < MaxSends
        /\ sock' = [sock EXCEPT ![fd].inq = ch]
        /\ sends' = sends + 1
        /\ UNCHANGED <<users, kfd, kep, backlog, tasks, rpc, rfd, wk, sharedVars>>

ClientClose ==
    \E fd \in Fds, how \in {"fin", "rst"} :
        /\ kfd[fd]
        /\ sock[fd].peer = "up"
        /\ sock' = [sock EXCEPT ![fd].peer = how]
        /\ UNCHANGED <<users, kfd, kep, backlog, sends, tasks, rpc, rfd, wk, sharedVars>>

---------------------------------------------------------------------------
\* the reactor thread
\* Start: the event is on listenFd_: DealListen_
R_Listen ==
    /\ rpc = "wait"
    /\ backlog > 0
    /\ rpc' = "accept"
    /\ UNCHANGED <<users, kfd, kep, sock, backlog, sends, tasks, rfd, wk, sharedVars>>

\* DealListen_: accept returned a descriptor: AddClient_
R_Accept ==
    /\ rpc = "accept"
    /\ backlog > 0
    /\ LowestFree # 0
    /\ kfd' = [kfd EXCEPT ![LowestFree] = TRUE]
    /\ sock' = [sock EXCEPT ![LowestFree] = NewSock(gen + 1)]
    /\ backlog' = backlog - 1
    /\ gen' = gen + 1
    /\ rfd' = LowestFree
    /\ rpc' = "Init"
    /\ UNCHANGED <<users, kep, sends, tasks, wk, mappings, userCount_>>

\* DealListen_: accept returned fd <= 0: leave the loop
R_AcceptNone ==
    /\ rpc = "accept"
    /\ backlog = 0 \/ LowestFree = 0
    /\ rpc' = "wait"
    /\ UNCHANGED <<users, kfd, kep, sock, backlog, sends, tasks, rfd, wk, sharedVars>>

\* AddClient_: users_[fd] (created on first use), Init up to isClose_ = false
R_Init ==
    /\ rpc = "Init"
    /\ userCount_' = userCount_ + 1
    /\ users' = [users EXCEPT ![rfd] = Init_First(@, rfd)]
    /\ rpc' = "InitRest"
    /\ UNCHANGED <<kfd, kep, sock, backlog, sends, tasks, rfd, wk, mappings, gen>>

\* AddClient_: the rest of Init, then AddFd(fd, EPOLLIN | connEvent_)
R_InitRest ==
    /\ rpc = "InitRest"
    /\ users' = [users EXCEPT ![rfd] = Init_Rest(@)]
    /\ kep' = [kep EXCEPT ![rfd] = "IN"]
    /\ rpc' = "accept"
    /\ UNCHANGED <<kfd, sock, backlog, sends, tasks, rfd, wk, sharedVars>>

\* Start line 49: an event with a hangup or error bit: CloseConn_
R_Hangup ==
    \E fd \in Fds :
        /\ rpc = "wait"
        /\ Ready(fd)
        /\ HangupBits(fd)
        /\ kep' = [kep EXCEPT ![fd] = "off"]
        /\ rfd' = fd
        /\ rpc' = "DelFd"
        /\ UNCHANGED <<users, kfd, sock, backlog, sends, tasks, wk, sharedVars>>

\* Start line 53: EPOLLIN without a hangup bit: DealRead_
R_DealRead ==
    \E fd \in Fds :
        /\ rpc = "wait"
        /\ Ready(fd)
        /\ ~HangupBits(fd)
        /\ kep[fd] = "IN"
        /\ kep' = [kep EXCEPT ![fd] = "off"]
        /\ AddTask("read", fd)
        /\ UNCHANGED <<users, kfd, sock, backlog, sends, rpc, rfd, wk, sharedVars>>

\* Start line 58: EPOLLOUT without a hangup bit: DealWrite_
R_DealWrite ==
    \E fd \in Fds :
        /\ rpc = "wait"
        /\ Ready(fd)
        /\ ~HangupBits(fd)
        /\ kep[fd] = "OUT"
        /\ kep' = [kep EXCEPT ![fd] = "off"]
        /\ AddTask("write", fd)
        /\ UNCHANGED <<users, kfd, sock, backlog, sends, rpc, rfd, wk, sharedVars>>

---------------------------------------------------------------------------
\* WebServer::CloseConn_ and HttpConn::Close, by the reactor or by a worker
\* CloseConn_: epoller_->DelFd(client->GetFd())
DelFdStep(fd) ==
    LET f == Client(fd).fd_ IN
    kep' = IF f \in Fds THEN [kep EXCEPT ![f] = "absent"] ELSE kep

\* Close lines 48-56: munmap if file_, then close(fd_) unless isClose_.
\* closing the descriptor also drops its epoll entry.
CloseFdStep(fd) ==
    LET c == Client(fd) IN
    /\ mappings' = Munmap(mappings, c.file_)
    /\ users' = [users EXCEPT ![fd] = Close_Unmap(c)]
    /\ IF ~c.isClose_ /\ c.fd_ \in Fds
       THEN /\ kfd' = [kfd EXCEPT ![c.fd_] = FALSE]
            /\ kep' = [kep EXCEPT ![c.fd_] = "absent"]
       ELSE UNCHANGED <<kfd, kep>>

\* Close lines 57-58: isClose_ = true; userCount_--
CloseFlagStep(fd) ==
    /\ users' = [users EXCEPT ![fd] = Close_SetFlag(@)]
    /\ userCount_' = userCount_ - 1

R_DelFd ==
    /\ rpc = "DelFd"
    /\ DelFdStep(rfd)
    /\ rpc' = "Close"
    /\ UNCHANGED <<users, kfd, sock, backlog, sends, tasks, rfd, wk, sharedVars>>

R_Close ==
    /\ rpc = "Close"
    /\ CloseFdStep(rfd)
    /\ rpc' = IF Client(rfd).isClose_ THEN "wait" ELSE "CloseFlag"
    /\ UNCHANGED <<sock, backlog, sends, tasks, rfd, wk, gen, userCount_>>

R_CloseFlag ==
    /\ rpc = "CloseFlag"
    /\ CloseFlagStep(rfd)
    /\ rpc' = "wait"
    /\ UNCHANGED <<kfd, kep, sock, backlog, sends, tasks, rfd, wk, mappings, gen>>

---------------------------------------------------------------------------
\* the worker threads
\* the worker loop: pop the front task
W_Pop(w) ==
    /\ wk[w].pc = "idle"
    /\ tasks # <<>>
    /\ wk' = [wk EXCEPT ![w] = [Idle EXCEPT !.pc = IF Head(tasks).kind = "read"
                                                  THEN "OnRead" ELSE "OnWrite",
                                            !.fd = Head(tasks).fd,
                                            !.conn = sock[Head(tasks).fd].id,
                                            !.kind = Head(tasks).kind]]
    /\ tasks' = Tail(tasks)
    /\ UNCHANGED <<users, kfd, kep, sock, backlog, sends, rpc, rfd, sharedVars>>

\* OnRead_: Read, then CloseConn_ or OnProcess_
W_OnRead(w) ==
    LET fd == wk[w].fd
        c == Client(fd)
        live == c.fd_ \in Fds /\ kfd[c.fd_]
        script == IF live THEN ReadScriptOf(sock[c.fd_])
                  ELSE <<[data |-> <<>>, errno |-> ECONNRESET]>>
        rd == ReadRun(c, CallStart, script)
    IN
    /\ wk[w].pc = "OnRead"
    /\ users' = [users EXCEPT ![fd] = rd.c]
    /\ sock' = IF live THEN [sock EXCEPT ![c.fd_].inq = <<>>] ELSE sock
    /\ wk' = [wk EXCEPT ![w].pc = IF OnReadCloses(rd.w.ret, rd.w.saveErrno)
                                  THEN "DelFd" ELSE "OnProcess"]
    /\ UNCHANGED <<kfd, kep, backlog, sends, tasks, rpc, rfd, sharedVars>>

\* OnWrite_: Write, then OnProcess_, or ModFd for EPOLLOUT and the task ends,
\* or CloseConn_
W_OnWrite(w) ==
    LET fd == wk[w].fd IN
    /\ wk[w].pc = "OnWrite"
    /\ \E out \in WriteOutcomes(Client(fd), CallStart) :
         LET branch == OnWriteBranch(out.c, out.w.ret, out.w.saveErrno) IN
         /\ users' = [users EXCEPT ![fd] = out.c]
         /\ IF branch = "rearm" /\ out.c.fd_ \in Fds
            THEN ModFd(out.c.fd_, "OUT") ELSE UNCHANGED kep
         /\ wk' = [wk EXCEPT ![w] =
                     CASE branch = "rearm" -> Idle
                       [] OTHER -> [@ EXCEPT !.pc = IF branch = "process"
                                                    THEN "OnProcess" ELSE "DelFd",
                                             !.conn = IF out.c.fd_ \in Fds
                                                      THEN sock[out.c.fd_].id ELSE 0,
                                             !.drained = (ToWriteBytes(out.c) = 0),
                                             !.keepAlive = IsKeepAlive(out.c)]]
    /\ UNCHANGED <<kfd, sock, backlog, sends, tasks, rpc, rfd, sharedVars>>

\* OnProcess_: Process, then ModFd for EPOLLOUT or EPOLLIN; the task ends
W_OnProcess(w) ==
    LET fd == wk[w].fd
        pr == Process(Client(fd), Len(mappings) + 1)
    IN
    /\ wk[w].pc = "OnProcess"
    /\ users' = [users EXCEPT ![fd] = pr.c]
    /\ mappings' = IF pr.mapped THEN mappings \o <<[gen |-> gen, unmaps |-> 0]>>
                   ELSE mappings
    /\ IF pr.c.fd_ \in Fds THEN ModFd(pr.c.fd_, IF pr.ret THEN "OUT" ELSE "IN")
       ELSE UNCHANGED kep
    /\ wk' = [wk EXCEPT ![w] = Idle]
    /\ UNCHANGED <<kfd, sock, backlog, sends, tasks, rpc, rfd, gen, userCount_>>

W_DelFd(w) ==
    /\ wk[w].pc = "DelFd"
    /\ DelFdStep(wk[w].fd)
    /\ wk' = [wk EXCEPT ![w].pc = "Close"]
    /\ UNCHANGED <<users, kfd, sock, backlog, sends, tasks, rpc, rfd, sharedVars>>

W_Close(w) ==
    /\ wk[w].pc = "Close"
    /\ CloseFdStep(wk[w].fd)
    /\ wk' = IF Client(wk[w].fd).isClose_ THEN [wk EXCEPT ![w] = Idle]
             ELSE [wk EXCEPT ![w].pc = "CloseFlag"]
    /\ UNCHANGED <<sock, backlog, sends, tasks, rpc, rfd, gen, userCount_>>

W_CloseFlag(w) ==
    /\ wk[w].pc = "CloseFlag"
    /\ CloseFlagStep(wk[w].fd)
    /\ wk' = [wk EXCEPT ![w] = Idle]
    /\ UNCHANGED <<kfd, kep, sock, backlog, sends, tasks, rpc, rfd, mappings, gen>>

Next ==
    \/ ClientConnect /\ UNCHANGED <<bufVars, connVars, sqlVars, poolVars, readVars>>
    \/ ClientSend /\ UNCHANGED <<bufVars, connVars, sqlVars, poolVars, readVars>>
    \/ ClientClose /\ UNCHANGED <<bufVars, connVars, sqlVars, poolVars, readVars>>
    \/ R_Listen /\ UNCHANGED <<bufVars, connVars, sqlVars, poolVars, readVars>>
    \/ R_Accept /\ UNCHANGED <<bufVars, connVars, sqlVars, poolVars, readVars>>
    \/ R_AcceptNone /\ UNCHANGED <<bufVars, connVars, sqlVars, poolVars, readVars>>
    \/ R_Init /\ UNCHANGED <<bufVars, connVars, sqlVars, poolVars, readVars>>
    \/ R_InitRest /\ UNCHANGED <<bufVars, connVars, sqlVars, poolVars, readVars>>
    \/ R_Hangup /\ UNCHANGED <<bufVars, connVars, sqlVars, poolVars, readVars>>
    \/ R_DealRead /\ UNCHANGED <<bufVars, connVars, sqlVars, poolVars, readVars>>
    \/ R_DealWrite /\ UNCHANGED <<bufVars, connVars, sqlVars, poolVars, readVars>>
    \/ R_DelFd /\ UNCHANGED <<bufVars, connVars, sqlVars, poolVars, readVars>>
    \/ R_Close /\ UNCHANGED <<bufVars, connVars, sqlVars, poolVars, readVars>>
    \/ R_CloseFlag /\ UNCHANGED <<bufVars, connVars, sqlVars, poolVars, readVars>>
    \/ \E w \in Workers : W_Pop(w) /\ UNCHANGED <<bufVars, connVars, sqlVars, poolVars, readVars>>
    \/ \E w \in Workers : W_OnRead(w) /\ UNCHANGED <<bufVars, connVars, sqlVars, poolVars, readVars>>
    \/ \E w \in Workers : W_OnWrite(w) /\ UNCHANGED <<bufVars, connVars, sqlVars, poolVars, readVars>>
    \/ \E w \in Workers : W_OnProcess(w) /\ UNCHANGED <<bufVars, connVars, sqlVars, poolVars, readVars>>
    \/ \E w \in Workers : W_DelFd(w) /\ UNCHANGED <<bufVars, connVars, sqlVars, poolVars, readVars>>
    \/ \E w \in Workers : W_Close(w) /\ UNCHANGED <<bufVars, connVars, sqlVars, poolVars, readVars>>
    \/ \E w \in Workers : W_CloseFlag(w) /\ UNCHANGED <<bufVars, connVars, sqlVars, poolVars, readVars>>

(***************************************************************************)
(* Database pool spec (src/src/sqlconnpool.cpp): threads that call GetConn *)
(* and later FreeConn on the pool SqlConnPool::Init has filled.  A handle  *)
(* (MYSQL* ) is a number 1..MaxConn; 0 is nullptr.  The block guarded by   *)
(* mtx_ is one step: connQue_, freeCount_ and useCount_ are touched only   *)
(* inside it.  sem_wait is not interrupted: the program installs no signal *)
(* handler.                                                                *)
(***************************************************************************)
DbThreads == 1..(MaxConn + ExtraCallers)

\* the pool after SqlConnPool::Init(..., connSize)
SqlInit(connSize) ==
    [connQue_ |-> [i \in 1..connSize |-> i], MAX_CONN_ |-> connSize,
     freeCount_ |-> connSize, useCount_ |-> 0, semId_ |-> connSize]

\* a thread outside the pool's code, holding no handle
DbIdle == [pc |-> "idle", sql |-> 0, waited |-> FALSE, empty |-> FALSE]

\* sem_wait(&semId_) returns: the semaphore was positive and is decremented
SemWait(q) == [q EXCEPT !.semId_ = @ - 1]

\* sem_post(&semId_), twice (a variant)
SemPost_Twice(q) == [q EXCEPT !.semId_ = @ + 2]

\* sem_post(&semId_)
SemPost(q) == [q EXCEPT !.semId_ = @ + 1]

\* a thread calls GetConn and reaches sem_wait (waited: no unit was there then)
DbGetConn(t) ==
    /\ dbt[t].pc = "idle"
    /\ dbt' = [dbt EXCEPT ![t] = [DbIdle EXCEPT !.pc = "sem_wait",
                                               !.waited = (sq.semId_ = 0)]]
    /\ UNCHANGED sq

\* GetConn line 54: sem_wait returns
DbSemWait(t) ==
    /\ dbt[t].pc = "sem_wait"
    /\ sq.semId_ > 0
    /\ sq' = SemWait(sq)
    /\ dbt' = [dbt EXCEPT ![t].pc = "lock"]

\* GetConn lines 57-64: front, pop, the counters, return.  front() and pop()
\* on an empty queue are undefined: any handle may come back, the queue is
\* taken to stay empty, and the thread remembers it (empty)
DbTake(t) ==
    /\ dbt[t].pc = "lock"
    /\ IF sq.connQue_ # <<>>
       THEN /\ sq' = [sq EXCEPT !.connQue_ = Tail(@), !.freeCount_ = @ - 1,
                                !.useCount_ = @ + 1]
            /\ dbt' = [dbt EXCEPT ![t].pc = "hold", ![t].sql = Head(sq.connQue_)]
       ELSE /\ sq' = [sq EXCEPT !.freeCount_ = @ - 1, !.useCount_ = @ + 1]
            /\ \E h \in 0..MaxConn :
                 dbt' = [dbt EXCEPT ![t].pc = "hold", ![t].sql = h, ![t].empty = TRUE]

\* FreeConn lines 70-76: the handle goes back to the queue
DbFreeConn(t) ==
    /\ dbt[t].pc = "hold"
    /\ dbt[t].sql # 0
    /\ sq' = [sq EXCEPT !.connQue_ = Append(@, dbt[t].sql), !.freeCount_ = @ + 1,
                        !.useCount_ = @ - 1]
    /\ dbt' = [dbt EXCEPT ![t].pc = "sem_post", ![t].sql = 0]

\* FreeConn line 78: sem_post, and FreeConn returns
DbSemPost(t) ==
    /\ dbt[t].pc = "sem_post"
    /\ sq' = SemPost(sq)
    /\ dbt' = [dbt EXCEPT ![t] = DbIdle]

SqlNext ==
    \/ \E t \in DbThreads : DbGetConn(t) /\ UNCHANGED <<bufVars, connVars, sharedVars, srvVars, poolVars, readVars>>
    \/ \E t \in DbThreads : DbSemWait(t) /\ UNCHANGED <<bufVars, connVars, sharedVars, srvVars, poolVars, readVars>>
    \/ \E t \in DbThreads : DbTake(t) /\ UNCHANGED <<bufVars, connVars, sharedVars, srvVars, poolVars, readVars>>
    \/ \E t \in DbThreads : DbFreeConn(t) /\ UNCHANGED <<bufVars, connVars, sharedVars, srvVars, poolVars, readVars>>
    \/ \E t \in DbThreads : DbSemPost(t) /\ UNCHANGED <<bufVars, connVars, sharedVars, srvVars, poolVars, readVars>>

(***************************************************************************)
(* Thread pool spec (src/include/threadpool.h): the worker threads, threads*)
(* that call AddTask, and the thread that runs ~ThreadPool.  Everything a  *)
(* thread does while it holds pool->mtx is one step: tasks and isClosed are*)
(* touched only under the lock.  A task is a number; running it is a step  *)
(* of its own, made without the lock.                                      *)
(***************************************************************************)
PoolWorkers == 1..PoolThreads
Submitters == 1..NumSubmitters
TaskIds == 1..MaxTasks

\* std::make_shared<Pool>()
NewPool == [tasks |-> <<>>, isClosed |-> FALSE]

\* a worker thread about to take the lock at the top of its loop
PwLoop == [pc |-> "loop", task |-> 0]
PsIdle == [pc |-> "idle", task |-> 0]
NoHistory == [next |-> 1, completed |-> {}, before |-> [i \in TaskIds |-> {}],
              late |-> {}, popped |-> <<>>, ran |-> {}, woken |-> {}]

\* a variant that takes the newest task
TakeTask_Back(q) == [task |-> q[Len(q)], rest |-> SubSeq(q, 1, Len(q) - 1)]

\* tasks.front() and tasks.pop()
TakeTask(q) == [task |-> Head(q), rest |-> Tail(q)]

\* a variant that wakes nobody
NotifyAll_Nobody(p) == p

\* cond.notify_all(): every thread in cond.wait goes back to take the lock
NotifyAll(p) ==
    [w \in DOMAIN p |-> IF p[w].pc = "wait" THEN [p[w] EXCEPT !.pc = "loop"] ELSE p[w]]

\* a variant of notify_one that wakes nobody
NotifyOne_Nobody(p) == {p}

\* cond.notify_one(): the ways one waiting thread, if there is one, is woken
NotifyOne(p) ==
    IF \E w \in DOMAIN p : p[w].pc = "wait"
    THEN {[p EXCEPT ![w].pc = "loop"] : w \in {x \in DOMAIN p : p[x].pc = "wait"}}
    ELSE {p}

\* a thread calls AddTask (before: the AddTask calls that had returned by then;
\* late: isClosed was already set)
PoolAddTaskCall(s) ==
    /\ ps[s].pc = "idle"
    /\ pd # "done"
    /\ ph.next <= MaxTasks
    /\ ps' = [ps EXCEPT ![s] = [pc |-> "lock", task |-> ph.next]]
    /\ ph' = [ph EXCEPT !.next = @ + 1,
                        !.before[ph.next] = ph.completed,
                        !.late = IF tp.isClosed THEN @ \cup {ph.next} ELSE @]
    /\ UNCHANGED <<tp, pw, pd>>

\* AddTask lines 65-68: under the lock, tasks.emplace(task)
PoolAddTaskPush(s) ==
    /\ ps[s].pc = "lock"
    /\ tp' = [tp EXCEPT !.tasks = Append(@, ps[s].task)]
    /\ ps' = [ps EXCEPT ![s].pc = "notify"]
    /\ UNCHANGED <<pw, pd, ph>>

\* AddTask line 69: cond.notify_one(), and AddTask returns
PoolAddTaskNotify(s) ==
    /\ ps[s].pc = "notify"
    /\ pw' \in NotifyOne(pw)
    /\ ps' = [ps EXCEPT ![s] = PsIdle]
    /\ ph' = [ph EXCEPT !.completed = @ \cup {ps[s].task}]
    /\ UNCHANGED <<tp, pd>>

\* the worker loop, lines 23-42, with the lock: take the front task and unlock,
\* or leave the loop, or cond.wait (which gives the lock up)
PoolWorkerLoop(w) ==
    /\ pw[w].pc = "loop"
    /\ IF tp.tasks # <<>>
       THEN /\ tp' = [tp EXCEPT !.tasks = TakeTask(tp.tasks).rest]
            /\ pw' = [pw EXCEPT ![w] = [pc |-> "run", task |-> TakeTask(tp.tasks).task]]
            /\ ph' = [ph EXCEPT !.popped = Append(@, TakeTask(tp.tasks).task)]
       ELSE /\ pw' = [pw EXCEPT ![w].pc = IF tp.isClosed THEN "exit" ELSE "wait"]
            /\ UNCHANGED <<tp, ph>>
    /\ UNCHANGED <<ps, pd>>

\* line 33: task() runs to its end; line 35: the worker goes for the lock again
PoolWorkerRun(w) ==
    /\ pw[w].pc = "run"
    /\ pw' = [pw EXCEPT ![w] = PwLoop]
    /\ ph' = [ph EXCEPT !.ran = @ \cup {pw[w].task}]
    /\ UNCHANGED <<tp, ps, pd>>

\* cond.wait may return without a notification
PoolSpuriousWake(w) ==
    /\ pw[w].pc = "wait"
    /\ pw' = [pw EXCEPT ![w].pc = "loop"]
    /\ UNCHANGED <<tp, ps, pd, ph>>

\* ~ThreadPool lines 54-57: under the lock, isClosed = true
PoolDtorClose ==
    /\ pd = "idle"
    /\ tp' = [tp EXCEPT !.isClosed = TRUE]
    /\ pd' = "notify"
    /\ UNCHANGED <<pw, ps, ph>>

\* ~ThreadPool line 58: cond.notify_all(), and the destructor returns
PoolDtorNotify ==
    /\ pd = "notify"
    /\ pw' = NotifyAll(pw)
    /\ pd' = "done"
    /\ ph' = [ph EXCEPT !.woken = {w \in PoolWorkers : pw[w].pc = "wait"}]
    /\ UNCHANGED <<tp, ps>>

PoolNext ==
    \/ \E s \in Submitters : PoolAddTaskCall(s) /\ UNCHANGED <<bufVars, connVars, sharedVars, srvVars, sqlVars, readVars>>
    \/ \E s \in Submitters : PoolAddTaskPush(s) /\ UNCHANGED <<bufVars, connVars, sharedVars, srvVars, sqlVars, readVars>>
    \/ \E s \in Submitters : PoolAddTaskNotify(s) /\ UNCHANGED <<bufVars, connVars, sharedVars, srvVars, sqlVars, readVars>>
    \/ \E w \in PoolWorkers : PoolWorkerLoop(w) /\ UNCHANGED <<bufVars, connVars, sharedVars, srvVars, sqlVars, readVars>>
    \/ \E w \in PoolWorkers : PoolWorkerRun(w) /\ UNCHANGED <<bufVars, connVars, sharedVars, srvVars, sqlVars, readVars>>
    \/ \E w \in PoolWorkers : PoolSpuriousWake(w) /\ UNCHANGED <<bufVars, connVars, sharedVars, srvVars, sqlVars, readVars>>
    \/ PoolDtorClose /\ UNCHANGED <<bufVars, connVars, sharedVars, srvVars, sqlVars, readVars>>
    \/ PoolDtorNotify /\ UNCHANGED <<bufVars, connVars, sharedVars, srvVars, sqlVars, readVars>>

(***************************************************************************)
(* Read spec (HttpConn::Read, src/src/httpconn.cpp 63-86): one connection  *)
(* whose Read is called again and again, one step per pass of its loop,    *)
(* with readv returning whatever a socket can return.  After some results  *)
(* the descriptor settles: from then on it is at end of stream, or it has  *)
(* nothing to read.                                                        *)
(***************************************************************************)
\* (odd: whether the loop has made an odd number of passes in this call)
ReadIdle == [pc |-> "idle", n |-> 0, stable |-> "none", odd |-> FALSE]

\* what one readv can return: a byte, end of stream, or -1 with an errno
ReadvResults ==
    {[data |-> <<"a">>, errno |-> NoErrno], [data |-> <<>>, errno |-> NoErrno]}
    \cup {[data |-> <<>>, errno |-> e] : e \in {EINTR, EAGAIN, ECONNRESET}}

\* what readv returns once the descriptor has settled
StableResult(st) ==
    IF st = "eof" THEN [data |-> <<>>, errno |-> NoErrno]
    ELSE [data |-> <<>>, errno |-> EAGAIN]

\* OnRead_ lines 152-153: int readErrno = 0; client->Read(&readErrno), on an
\* input buffer that the Process of the task before left empty
ReadCall ==
    /\ rde.pc = "idle"
    /\ rde' = [pc |-> "loop", n |-> 0, stable |-> "none", odd |-> FALSE]
    /\ rdw' = CallStart
    /\ rdc' = [rdc EXCEPT !.readBuff_ = RetrieveAll(@)]

\* one pass of the loop, lines 66-84
ReadPass ==
    /\ rde.pc = "loop"
    /\ ~rdw.done
    /\ rde.stable = "none"
    /\ rde.n < MaxReadResults
    /\ \E r \in ReadvResults :
         LET it == ReadIter(rdc, rdw, r) IN
         /\ rdc' = it.c
         /\ rdw' = it.w
    /\ rde' = [rde EXCEPT !.n = @ + 1, !.odd = ~@]

\* the descriptor settles
ReadSettle ==
    /\ rde.pc = "loop"
    /\ ~rdw.done
    /\ rde.stable = "none"
    /\ \E st \in {"eof", "eagain"} : rde' = [rde EXCEPT !.stable = st]
    /\ UNCHANGED <<rdc, rdw>>

\* one pass of the loop on the settled descriptor
ReadStablePass ==
    /\ rde.pc = "loop"
    /\ ~rdw.done
    /\ rde.stable # "none"
    /\ LET it == ReadIter(rdc, rdw, StableResult(rde.stable)) IN
       /\ rdc' = it.c
       /\ rdw' = it.w
    /\ rde' = [rde EXCEPT !.odd = ~@]

\* Read returns
ReadReturn ==
    /\ rde.pc = "loop"
    /\ rdw.done
    /\ rde' = [rde EXCEPT !.pc = "idle"]
    /\ UNCHANGED <<rdc, rdw>>

ReadNext ==
    \/ ReadCall /\ UNCHANGED <<bufVars, connVars, sharedVars, srvVars, sqlVars, poolVars>>
    \/ ReadPass /\ UNCHANGED <<bufVars, connVars, sharedVars, srvVars, sqlVars, poolVars>>
    \/ ReadSettle /\ UNCHANGED <<bufVars, connVars, sharedVars, srvVars, sqlVars, poolVars>>
    \/ ReadStablePass /\ UNCHANGED <<bufVars, connVars, sharedVars, srvVars, sqlVars, poolVars>>
    \/ ReadReturn /\ UNCHANGED <<bufVars, connVars, sharedVars, srvVars, sqlVars, poolVars>>

(***************************************************************************)
(* The specifications.  Each one runs its own part of the model and leaves *)
(* the variables of the other parts at their initial values.               *)
(***************************************************************************)
vars == <<bufVars, connVars, sharedVars, srvVars, sqlVars, poolVars, readVars>>

\* the objects as their constructors leave them, before the server accepts
Init ==
    /\ buf = NewBuffer(InitBufSize)
    /\ shadow = <<>>
    /\ lastOp = NoOp
    /\ hc = NewHttpConn
    /\ fdOpen = FALSE
    /\ ep = "absent"
    /\ cpc = "idle"
    /\ wcall = CallStart
    /\ mappings = <<>>
    /\ gen = 0
    /\ userCount_ = 0
    /\ lastRun = NoHandler
    /\ wg = NoWrite
    /\ fails = 0
    /\ users = [fd \in Fds |-> NewHttpConn]
    /\ kfd = [fd \in Fds |-> FALSE]
    /\ kep = [fd \in Fds |-> "absent"]
    /\ sock = [fd \in Fds |-> NewSock(0)]
    /\ backlog = 0
    /\ sends = 0
    /\ tasks = <<>>
    /\ rpc = "wait"
    /\ rfd = 0
    /\ wk = [w \in Workers |-> Idle]
    /\ sq = SqlInit(MaxConn)
    /\ dbt = [t \in DbThreads |-> DbIdle]
    /\ tp = NewPool
    /\ pw = [w \in PoolWorkers |-> PwLoop]
    /\ ps = [s \in Submitters |-> PsIdle]
    /\ pd = "idle"
    /\ ph = NoHistory
    /\ rdc = NewHttpConn
    /\ rdw = CallStart
    /\ rde = ReadIdle

Spec == Init /\ [][Next]_vars

\* a thread inside GetConn or FreeConn goes on; whether and when a thread calls
\* GetConn or FreeConn is up to the caller
SqlFair ==
    /\ WF_sqlVars(\E t \in DbThreads : DbSemWait(t))
    /\ \A t \in DbThreads : WF_sqlVars(DbTake(t)) /\ WF_sqlVars(DbSemPost(t))

SpecSql == Init /\ [][SqlNext]_vars /\ SqlFair

\* a thread that can take the lock does, a task ends, and a destructor that has
\* begun finishes; whether and when AddTask or the destructor is called is up to
\* the callers, and nothing promises a wake-up without a notification
PoolFair ==
    /\ \A w \in PoolWorkers : WF_poolVars(PoolWorkerLoop(w)) /\ WF_poolVars(PoolWorkerRun(w))
    /\ \A s \in Submitters : WF_poolVars(PoolAddTaskPush(s)) /\ WF_poolVars(PoolAddTaskNotify(s))
    /\ WF_poolVars(PoolDtorNotify)

SpecPool == Init /\ [][PoolNext]_vars /\ PoolFair

\* the thread inside Read keeps running and the descriptor settles after
\* finitely many results
ReadFair ==
    /\ WF_readVars(ReadPass)
    /\ WF_readVars(ReadSettle)
    /\ WF_readVars(ReadStablePass)
    /\ WF_readVars(ReadReturn)

SpecRead == Init /\ [][ReadNext]_vars /\ ReadFair

SpecBuffer == Init /\ [][BufNext]_vars

SpecConn == Init /\ [][ConnNext]_vars

(***************************************************************************)
(* Claims about the Buffer, checked under SpecBuffer.                      *)
(***************************************************************************)
\* C6: after every Append and Retrieve call readPos_ <= writePos_ <= buffer_.size(),
\* and the readable region [readPos_, writePos_) holds exactly the bytes appended
\* and not yet retrieved, in append order (also across compaction and growth).
C6_CursorsAndContents ==
    /\ 0 <= buf.readPos_
    /\ buf.readPos_ <= buf.writePos_
    /\ buf.writePos_ <= Len(buf.buffer_)
    /\ PeekBytes(buf) = shadow

\* an Append that had to compact a non-empty readable region, which survived
C6_Witness ==
    /\ lastOp.op = "Append"
    /\ lastOp.n > 0
    /\ lastOp.readPos_ > 0
    /\ lastOp.readable # <<>>
    /\ buf.readPos_ = 0
    /\ Len(buf.buffer_) = lastOp.size
    /\ Len(shadow) = Len(lastOp.readable) + lastOp.n

\* C7: after EnsureWriteable(n), WriteAbleBytes() >= n, on the growth path and on
\* the compaction path, and the readable bytes are unchanged.
C7_EnsureWriteable ==
    lastOp.op = "EnsureWriteable" =>
        /\ WriteAbleBytes(buf) >= lastOp.n
        /\ PeekBytes(buf) = lastOp.readable

\* EnsureWriteable(n) that compacted a non-empty readable region to make room
C7_Witness ==
    /\ lastOp.op = "EnsureWriteable"
    /\ lastOp.size - lastOp.writePos_ < lastOp.n
    /\ lastOp.readPos_ > 0
    /\ lastOp.readable # <<>>
    /\ Len(buf.buffer_) = lastOp.size
    /\ buf.readPos_ = 0

\* C8: compaction first. Whenever ReadAbleBytes() + n <= buffer_.size(),
\* EnsureWriteable(n) or an Append of n bytes leaves the capacity unchanged; the
\* capacity changes only when writable + prependable < n, and then it strictly
\* increases; no call shrinks the buffer.
C8_CompactionFirst ==
    /\ Len(buf.buffer_) >= lastOp.size
    /\ lastOp.op \in {"EnsureWriteable", "Append"} =>
        /\ Len(lastOp.readable) + lastOp.n <= lastOp.size
              => Len(buf.buffer_) = lastOp.size
        /\ Len(buf.buffer_) # lastOp.size
              => /\ (lastOp.size - lastOp.writePos_) + lastOp.readPos_ < lastOp.n
                 /\ Len(buf.buffer_) > lastOp.size

\* a call that needed room, found it in the prependable region and kept the capacity
C8_Witness ==
    /\ lastOp.op \in {"EnsureWriteable", "Append"}
    /\ lastOp.size - lastOp.writePos_ < lastOp.n
    /\ Len(lastOp.readable) + lastOp.n <= lastOp.size
    /\ lastOp.readable # <<>>
    /\ Len(buf.buffer_) = lastOp.size

\* C9: Retrieve(n) with n >= ReadAbleBytes() leaves the buffer as RetrieveAll()
\* does (readPos_ = writePos_ = 0, the vector untouched in size); with
\* n < ReadAbleBytes() it advances readPos_ by exactly n and leaves writePos_.
C9_RetrieveClamp ==
    lastOp.op = "Retrieve" =>
        /\ Len(buf.buffer_) = lastOp.size
        /\ IF lastOp.n >= Len(lastOp.readable)
           THEN buf.readPos_ = 0 /\ buf.writePos_ = 0
           ELSE /\ buf.readPos_ = lastOp.readPos_ + lastOp.n
                /\ buf.writePos_ = lastOp.writePos_
                /\ PeekBytes(buf) =
                     SubSeq(lastOp.readable, lastOp.n + 1, Len(lastOp.readable))

\* Retrieve(n) asked for more than the readable bytes of a partly consumed buffer
C9_Witness ==
    /\ lastOp.op = "Retrieve"
    /\ lastOp.readable # <<>>
    /\ lastOp.readPos_ > 0
    /\ lastOp.n > Len(lastOp.readable)
    /\ buf.readPos_ = 0
    /\ buf.writePos_ = 0

(***************************************************************************)
(* Claims about one connection, checked under SpecConn.                    *)
(***************************************************************************)
Taken0 == wg.len0 - hc.iov_[1].iov_len     \* bytes taken from segment 0 so far
Taken1 == wg.len1 - hc.iov_[2].iov_len     \* bytes taken from segment 1 so far

C3_EagainRearmsWrite ==
    (lastRun.kind = "write" /\ lastRun.errno = EAGAIN /\ lastRun.remaining > 0) =>
        /\ fdOpen
        /\ ~hc.isClose_
        /\ ep = "OUT"

\* C5: every mapping made by MakeResponse_ is released at most once, and once the
\* connection that made it is closed it has been released exactly once.
C5_MappingReleasedOnce ==
    \A i \in 1..Len(mappings) :
        /\ mappings[i].unmaps <= 1
        /\ (mappings[i].gen < gen \/ hc.isClose_) => mappings[i].unmaps = 1

(***************************************************************************)
(* Claims about the threaded server, checked under Spec.                   *)
(***************************************************************************)
\* the reactor is between its first and its last access to users_[fd] in
\* AddClient_ (Init) or CloseConn_ (Close)
ReactorInside(fd) == rfd = fd /\ rpc \in {"InitRest", "Close", "CloseFlag"}

\* worker w is between its first and its last access to users_[fd] in a task
WorkerInside(w, fd) ==
    wk[w].fd = fd /\ wk[w].pc \in {"OnProcess", "DelFd", "Close", "CloseFlag"}

\* C1: no two threads are at the same time inside code that reads or writes the
\* same HttpConn object, in every interleaving of the reactor (accept, Init,
\* hangup close) and the worker tasks, descriptor reuse included.
C1_OneThreadPerConn ==
    \A fd \in Fds :
        /\ \A w \in Workers : ~(ReactorInside(fd) /\ WorkerInside(w, fd))
        /\ \A w1, w2 \in Workers :
              (w1 # w2) => ~(WorkerInside(w1, fd) /\ WorkerInside(w2, fd))

\* the tasks of descriptor fd that are queued or executing
InFlight(fd) ==
    Cardinality({i \in 1..Len(tasks) : tasks[i].fd = fd})
      + Cardinality({w \in Workers : wk[w].pc # "idle" /\ wk[w].fd = fd})

\* C2: for every client descriptor at most one task is queued or executing.
C2_OneTaskPerFd == \A fd \in Fds : InFlight(fd) <= 1

\* C4: a write-task that found the response fully drained ends, when the
\* keep-alive flag is set, with the connection open and armed for EPOLLIN, and
\* otherwise with the connection closed and out of the epoll set.
C4_DrainedWriteTask ==
    [][\A w \in Workers :
         (wk[w].kind = "write" /\ wk[w].drained /\ wk[w].pc # "idle"
            /\ wk'[w].pc = "idle") =>
           LET fd == wk[w].fd
               same == sock'[fd].id = wk[w].conn
           IN IF wk[w].keepAlive
              THEN kfd'[fd] /\ same /\ kep'[fd] = "IN"
              ELSE ~(kfd'[fd] /\ same) /\ (kep'[fd] = "absent" \/ ~same)]_vars

(***************************************************************************)
(* Claims about request processing, checked under SpecConn.                *)
(***************************************************************************)
\* the request bytes have no line terminator, or their first line is not
\* METHOD SP PATH SP HTTP/VERSION
BadRequestLine(data) ==
    \/ FindCRLF(data, 0) = -1
    \/ ~RequestLineMatch(SubSeq(data, 1, FindCRLF(data, 0))).matched

\* C11: when the buffered input's first line does not match the request-line
\* pattern, or no line terminator is present, Process returns false and leaves
\* writeBuff_ and the iov_ segments as they were: no response bytes are queued.
C11_BadLineQueuesNothing ==
    [][(lastRun'.kind = "read" /\ lastRun'.branch = "process"
          /\ BadRequestLine(lastRun'.input)) =>
         /\ ~lastRun'.pret
         /\ hc'.writeBuff_ = hc.writeBuff_
         /\ hc'.iov_ = hc.iov_
         /\ hc'.iovCnt_ = hc.iovCnt_]_vars

\* a read-task read GARBAGE CRLF CRLF on a connection that has answered a request
\* before; Process returned false
C11_Witness ==
    /\ lastRun.kind = "read"
    /\ lastRun.branch = "process"
    /\ lastRun.input = RQ_Garbage
    /\ ~lastRun.pret
    /\ hc.iovCnt_ > 0
    /\ ToWriteBytes(hc) = 0

\* C12: a parse failure never closes the connection: after a read-task whose
\* Read obtained bytes and whose Process returned false the descriptor is open,
\* the connection is not closed and it is armed for EPOLLIN; the same after
\* every later malformed request on the connection.
C12_ParseFailureKeepsOpen ==
    (lastRun.kind = "read" /\ lastRun.ret > 0 /\ ~lastRun.pret) =>
        /\ fdOpen
        /\ ~hc.isClose_
        /\ ep = "IN"

\* the second malformed request in a row on one connection
C12_Witness ==
    /\ lastRun.kind = "read"
    /\ lastRun.ret > 0
    /\ ~lastRun.pret
    /\ fails >= 2
    /\ fdOpen
    /\ ep = "IN"

\* C13: Close() on an already closed connection changes nothing: the
\* descriptor is not closed again, no mapping is released again, userCount_ is
\* not decremented again, the object is as it was.
C13_CloseIdempotent ==
    [][(cpc' = "gone" /\ hc.isClose_) =>
         /\ hc' = hc
         /\ fdOpen' = fdOpen
         /\ ep' = ep
         /\ mappings' = mappings
         /\ userCount_' = userCount_]_vars

\* the destructor's Close() ran on a connection that had served a file and had
\* been closed before
C13_Witness ==
    /\ cpc = "gone"
    /\ lastRun.kind = "dtor"
    /\ lastRun.branch = "closed"
    /\ hc.isClose_
    /\ ~fdOpen
    /\ userCount_ = 0
    /\ \E i \in 1..Len(mappings) : mappings[i].unmaps = 1

\* the bytes of index.html
IndexBytes == [i \in 1..IndexSize |-> FileByte("/index.html", i - 1)]

\* C14: for GET / with Connection: keep-alive and index.html present, Process
\* maps the path to /index.html and queues a 200 response whose header carries
\* Connection: keep-alive and Content-Length = the file size, followed by the
\* file bytes; once that response is written completely the connection is open
\* and armed for EPOLLIN.
C14_RootKeepAlive ==
    /\ (lastRun.kind = "read" /\ lastRun.branch = "process"
          /\ lastRun.input = RQ_KeepAlive) =>
          /\ lastRun.pret
          /\ hc.path_ = "/index.html"
          /\ Queued(hc) = <<"HTTP/1.1 200 OK", "Connection: keep-alive",
                            "Content-Length: " \o SizeToString(IndexSize), CRLF>>
                          \o IndexBytes
          /\ ep = "OUT"
    /\ (lastRun.kind = "write" /\ lastRun.remaining = 0 /\ hc.isKeepAlive_
          /\ wg.len1 = IndexSize /\ wcall.bytes = wg.len0 + wg.len1) =>
          /\ fdOpen
          /\ ~hc.isClose_
          /\ ep = "IN"

\* the 200 response to a keep-alive GET / has been written completely and the
\* write-task has ended
C14_Witness ==
    /\ lastRun.kind = "write"
    /\ lastRun.remaining = 0
    /\ hc.isKeepAlive_
    /\ hc.path_ = "/index.html"
    /\ wg.len0 = 4 /\ wg.len1 = IndexSize
    /\ wcall.bytes = 4 + IndexSize
    /\ fdOpen
    /\ ep = "IN"

(***************************************************************************)
(* Claims about the database pool, checked under SpecSql.                  *)
(***************************************************************************)
\* threads that hold a handle GetConn returned
Holders == {t \in DbThreads : dbt[t].pc = "hold"}

\* threads whose sem_wait has returned and that have yet to take their handle
Admitted == {t \in DbThreads : dbt[t].pc = "lock"}

\* threads blocked in sem_wait
Blocked == {t \in DbThreads : dbt[t].pc = "sem_wait"}

\* C15: with a pool of MaxConn handles: never are more than MaxConn handles
\* checked out and no two threads hold the same one; GetConn never takes from an
\* empty queue; a caller that finds all handles checked out does not get past
\* sem_wait while no handle is free; and once a holder's FreeConn has made a
\* handle available a blocked caller's GetConn goes on to return one.
C15_PoolExhaustion ==
    /\ [](/\ Cardinality(Holders) <= MaxConn
          /\ \A t, u \in Holders : (t # u) => dbt[t].sql # dbt[u].sql
          /\ \A t \in Holders : dbt[t].sql \in 1..MaxConn /\ ~dbt[t].empty
          /\ Cardinality(Admitted) <= Len(sq.connQue_)
          /\ sq.useCount_ = Cardinality(Holders)
          /\ sq.freeCount_ = Len(sq.connQue_))
    /\ [][\A t \in DbThreads :
            (dbt[t].pc = "sem_wait" /\ dbt'[t].pc # "sem_wait") =>
               Len(sq.connQue_) > Cardinality(Admitted)]_vars
    /\ ((Blocked # {} /\ sq.semId_ > 0) ~> (Admitted # {}))
    /\ \A t \in DbThreads : (dbt[t].pc = "lock") ~> (dbt[t].pc = "hold")

\* a caller found every handle checked out, waited, and now holds a handle that
\* another thread has given back
C15_Witness ==
    \E t \in DbThreads :
        /\ dbt[t].pc = "hold"
        /\ dbt[t].waited
        /\ dbt[t].sql \in 1..MaxConn
        /\ Cardinality(Holders) = MaxConn

(***************************************************************************)
(* Claims about the thread pool, checked under SpecPool.                   *)
(***************************************************************************)
\* the position of task a in the order of pops (0: not popped)
PopIndex(a) ==
    IF \E i \in 1..Len(ph.popped) : ph.popped[i] = a
    THEN CHOOSE i \in 1..Len(ph.popped) : ph.popped[i] = a
    ELSE 0

\* C16: tasks are dequeued in submission order: if AddTask(a) returned before
\* AddTask(b) was called, a is popped before b, whatever the number of workers
\* and submitters.
C16_FifoDequeue ==
    \A b \in TaskIds : \A a \in ph.before[b] :
        PopIndex(b) # 0 => (PopIndex(a) # 0 /\ PopIndex(a) < PopIndex(b))

\* a was submitted before b and popped before b, and b has finished while a is
\* still running
C16_Witness ==
    \E a, b \in TaskIds :
        /\ a \in ph.before[b]
        /\ PopIndex(a) # 0 /\ PopIndex(a) < PopIndex(b)
        /\ b \in ph.ran
        /\ a \notin ph.ran

\* C17: once the pool is marked closed no new task is accepted: a task whose
\* AddTask call was made after isClosed was set is never in the queue and is
\* never taken or run by a worker.
C17_NoTaskAfterClose ==
    \A a \in ph.late :
        /\ \A i \in 1..Len(tp.tasks) : tp.tasks[i] # a
        /\ PopIndex(a) = 0
        /\ a \notin ph.ran

\* C18: shutdown releases every worker: once the pool is marked closed and
\* notify_all was issued no worker is left in cond.wait, a task that was taken
\* from the queue runs to completion, a worker leaves its loop only when it
\* sees the queue empty and the pool closed, and every worker eventually does.
C18_ShutdownReleasesWorkers ==
    /\ [](pd = "done" => \A w \in PoolWorkers : pw[w].pc # "wait")
    /\ \A w \in PoolWorkers : \A a \in TaskIds :
           (pw[w].pc = "run" /\ pw[w].task = a) ~> (a \in ph.ran)
    /\ [][\A w \in PoolWorkers :
             (pw[w].pc # "exit" /\ pw'[w].pc = "exit") => (tp.tasks = <<>> /\ tp.isClosed)]_vars
    /\ (pd = "done") ~> (\A w \in PoolWorkers : pw[w].pc = "exit")

\* shutdown found a worker in cond.wait and another running a task; the task
\* has finished and every worker has left its loop
C18_Witness ==
    /\ pd = "done"
    /\ ph.woken # {} /\ ph.woken # PoolWorkers
    /\ ph.ran # {}
    /\ \A w \in PoolWorkers : pw[w].pc = "exit"

(***************************************************************************)
(* Claims about the server's connection map, checked under Spec.           *)
(***************************************************************************)
\* users_.count(fd) > 0: users_[fd] in AddClient_ creates the entry on the first
\* accept of the number fd, and Init stores fd in it; nothing erases an entry.
InMap(fd) == users[fd].fd_ = fd

\* C19: the map holds a Connection for each live client descriptor (accepted,
\* AddClient_ begun, not yet closed) and none for a descriptor that has been
\* closed (Close has run to its end): created on accept, removed on close.
C19_MapMatchesLiveDescriptors ==
    \A fd \in Fds :
        /\ (kfd[fd] /\ ~(rfd = fd /\ rpc = "Init")) => InMap(fd)
        /\ (~kfd[fd] /\ users[fd].isClose_) => ~InMap(fd)

(***************************************************************************)
(* Claims about HttpConn::Read, checked under SpecConn.                    *)
(***************************************************************************)
\* C20: HttpConn::Read returns -1 only when a real I/O error occurred (one other
\* than EAGAIN / EINTR) and no byte was obtained; when the peer closed the
\* connection with no error it returns the number of bytes read (>= 0).
C20_ReadMinusOneOnlyOnError ==
    (lastRun.kind = "read" /\ lastRun.ret = -1) =>
        lastRun.errno \notin {NoErrno, EAGAIN, EINTR}

(***************************************************************************)
(* Claims about the dispatch loop and the tasks, checked under Spec.       *)
(***************************************************************************)
\* the reactor takes the event of fd from epoll_wait (EPOLLONESHOT disarms it)
Dispatched(fd) == rpc = "wait" /\ kep[fd] \in {"IN", "OUT"} /\ kep'[fd] = "off"

C23_ReadFd ==
    /\ [](lastOp.op = "ReadFd" /\ lastOp.n >= 0 =>
           /\ ReadAbleBytes(buf) = Len(lastOp.readable) + lastOp.n
           /\ PeekBytes(buf) =
                lastOp.readable \o SubSeq(shadow, Len(shadow) - lastOp.n + 1, Len(shadow))
           /\ lastOp.n <= lastOp.size - lastOp.writePos_ =>
                /\ buf.writePos_ = lastOp.writePos_ + lastOp.n
                /\ buf.readPos_ = lastOp.readPos_
                /\ Len(buf.buffer_) = lastOp.size
           /\ lastOp.n > lastOp.size - lastOp.writePos_ =>
                buf.writePos_ - buf.readPos_ > lastOp.size - lastOp.writePos_)
    /\ [][(lastOp'.op = "ReadFd" /\ lastOp'.n < 0) => buf' = buf]_vars

\* a read of more bytes than the non-empty writable region held: the last byte
\* that went into the region and the first overflow byte differ
C23_Witness ==
    /\ lastOp.op = "ReadFd"
    /\ lastOp.n > lastOp.size - lastOp.writePos_
    /\ lastOp.size - lastOp.writePos_ > 0
    /\ Len(buf.buffer_) > lastOp.size
    /\ shadow[Len(shadow)] # shadow[Len(shadow) - 1]

(***************************************************************************)
(* More claims about one connection, checked under SpecConn.               *)
(***************************************************************************)
\* C24: during HttpConn::Write segment 0 and the output buffer agree: at every
\* pass iov_[0].iov_len = writeBuff_.ReadAbleBytes(); the buffer becomes empty
\* (cursors reset) exactly at the pass where segment 0 reaches length zero, not
\* earlier, and later passes, which only shrink segment 1, leave the buffer alone.
C24_HeaderConsumedOnce ==
    /\ [](cpc = "Write" => hc.iov_[1].iov_len = ReadAbleBytes(hc.writeBuff_))
    /\ [][(cpc = "Write" /\ cpc' = "Write") =>
            /\ hc.iov_[1].iov_len = 0 => hc'.writeBuff_ = hc.writeBuff_
            /\ (ReadAbleBytes(hc.writeBuff_) > 0 /\ ReadAbleBytes(hc'.writeBuff_) = 0)
                  <=> (hc.iov_[1].iov_len > 0 /\ hc'.iov_[1].iov_len = 0)
            /\ (hc.iov_[1].iov_len > 0 /\ hc'.iov_[1].iov_len = 0)
                  => (hc'.writeBuff_.readPos_ = 0 /\ hc'.writeBuff_.writePos_ = 0)]_vars

\* segment 0 was sent in more than one pass and is done, and the last pass took
\* one byte from segment 1 only
C24_Witness ==
    /\ cpc = "Write"
    /\ wg.len0 > 0
    /\ hc.iov_[1].iov_len = 0
    /\ ReadAbleBytes(hc.writeBuff_) = 0
    /\ lastRun.kind = "writev" /\ lastRun.ret = 1
    /\ Taken1 = 1
    /\ hc.iov_[2].iov_len > 0

(***************************************************************************)
(* Claims about the connection counter, checked under Spec.                *)
(***************************************************************************)
\* no thread is inside HttpConn::Init or HttpConn::Close
NoInitOrClose ==
    /\ rpc \notin {"InitRest", "Close", "CloseFlag"}
    /\ \A w \in Workers : wk[w].pc \notin {"Close", "CloseFlag"}

\* C25: whenever no Init or Close call is in progress, userCount_ equals the
\* number of Connection objects that are open (isClose_ false), for every
\* interleaving of the reactor's accepts and the workers' closes.
C25_UserCountMatchesOpen ==
    NoInitOrClose => userCount_ = Cardinality({fd \in Fds : ~users[fd].isClose_})

\* C26: Process consumes the whole input buffer whenever it is non-empty,
\* whatever its result: after a task that called Process readBuff_ has no
\* readable byte, so the bytes Process is given are those of the Read of the
\* same task only; an incomplete or malformed request is not kept for later.
C26_ProcessConsumesInput ==
    (lastRun.kind \in {"read", "write"} /\ lastRun.branch = "process") =>
        /\ ReadAbleBytes(hc.readBuff_) = 0
        /\ lastRun.kind = "read" => Len(lastRun.input) = lastRun.ret

\* an incomplete request line arrived twice in a row: the second Process was
\* given the second arrival only
C26_Witness ==
    /\ lastRun.kind = "read"
    /\ lastRun.branch = "process"
    /\ lastRun.input = RQ_Partial
    /\ ~lastRun.pret
    /\ fails >= 2

(***************************************************************************)
(* Claims about the loop of HttpConn::Read, checked under SpecRead.        *)
(***************************************************************************)
\* C27: HttpConn::Read always terminates: after any finite sequence of readv
\* results (data, EINTR, EAGAIN, end of stream, other error) followed by a
\* stable end of stream or would-block condition the loop exits, also when an
\* EINTR is followed by end of stream.
C27_ReadTerminates == (rde.pc = "loop") ~> (rde.pc = "idle")

(***************************************************************************)
(* Claims about keep-alive and the scatter/gather state across requests    *)
(* and connections, checked under SpecConn.                                *)
(***************************************************************************)
\* C28: the keep-alive decision of a response depends only on the request it
\* answers: a GET / without a Connection: keep-alive header gets a response with
\* Connection: close, also on a connection that served a keep-alive request
\* before, and the connection is closed once that response is drained.
C28_KeepAlivePerRequest ==
    /\ (lastRun.kind = "read" /\ lastRun.branch = "process" /\ lastRun.input = RQ_Close) =>
          /\ lastRun.pret
          /\ ~hc.isKeepAlive_
          /\ Queued(hc)[2] = "Connection: close"
    /\ (lastRun.kind = "write" /\ lastRun.remaining = 0 /\ hc.method_ = "GET"
          /\ hc.path_ = "/index.html" /\ ~hc.isKeepAlive_) =>
          (~fdOpen /\ hc.isClose_ /\ ep = "absent")

\* C29: right after MakeResponse_ ToWriteBytes() is the number of response
\* bytes queued for that response (header, plus file bytes for a 200), and it is
\* 0 once those bytes are written; also for a header-only response on an object
\* that Init re-initialised after its previous connection was closed with
\* segment 1 unsent.
C29_ToWriteBytesIsQueued ==
    /\ (lastRun.kind = "read" /\ lastRun.pret) => ToWriteBytes(hc) = Len(Queued(hc))
    /\ (cpc = "Write"
          /\ wcall.bytes = wg.len0 + (IF hc.iovCnt_ = 2 THEN wg.len1 ELSE 0)) =>
          ToWriteBytes(hc) = 0

(***************************************************************************)
(* Claims about how tasks end, checked under Spec.                         *)
(***************************************************************************)
\* C30: no connection is stranded: every read-task and write-task ends with
\* the connection it worked on closed (its descriptor closed) and out of the
\* epoll set, or with that connection open and its descriptor armed with
\* exactly one interest; a descriptor that was taken out of the epoll set is
\* armed again only by the AddFd of a new accept.
C30_NoConnectionStranded ==
    /\ [][\A w \in Workers :
            (wk[w].pc # "idle" /\ wk'[w].pc = "idle") =>
              LET fd == wk[w].fd
                  same == sock'[fd].id = wk[w].conn
              IN \/ kfd'[fd] /\ same /\ kep'[fd] \in {"IN", "OUT"}
                 \/ ~(kfd'[fd] /\ same) /\ (kep'[fd] = "absent" \/ ~same)]_vars
    /\ [][\A fd \in Fds :
            (kep[fd] = "absent" /\ kep'[fd] # "absent") => rpc = "InitRest"]_vars

(***************************************************************************)
(* More claims about the thread pool, checked under SpecPool.              *)
(***************************************************************************)
\* task a is in the queue
Queued_(a) == \E i \in 1..Len(tp.tasks) : tp.tasks[i] = a

\* C31: under fair scheduling every task that AddTask put in the queue while
\* the pool was open is eventually dequeued and executed, exactly once and by
\* one worker: no wake-up is lost between a worker finding the queue empty and
\* waiting and a concurrent AddTask, and no task is popped twice.
C31_EveryTaskRunsOnce ==
    /\ \A a \in TaskIds : (Queued_(a) /\ ~tp.isClosed) ~> (a \in ph.ran)
    /\ [](\A i, j \in 1..Len(ph.popped) : i # j => ph.popped[i] # ph.popped[j])
    /\ [](\A a \in TaskIds :
            /\ Cardinality({w \in PoolWorkers : pw[w].pc = "run" /\ pw[w].task = a}) <= 1
            /\ PopIndex(a) # 0 => ~Queued_(a)
            /\ a \in ph.ran => PopIndex(a) # 0
            /\ (\E w \in PoolWorkers : pw[w].pc = "run" /\ pw[w].task = a)
                  => (PopIndex(a) # 0 /\ a \notin ph.ran))

\* the pool is open, every task of the run was submitted and has been executed,
\* and all workers are back in cond.wait
C31_Witness ==
    /\ ~tp.isClosed
    /\ ph.ran = TaskIds
    /\ Len(ph.popped) = MaxTasks
    /\ \A w \in PoolWorkers : pw[w].pc = "wait"

====
